---- MODULE Spec2Model ----
(***************************************************************************)
(* Model of the student task processor (FastAPI handler, TaskProcessor,   *)
(* AIService, GitHubService and the evaluation notifier).                  *)
(*                                                                         *)
(* Scheduling: one asyncio event loop.  A coroutine holds the loop until   *)
(* it suspends in a real await; the GitHub calls, the evaluation POSTs and *)
(* the retry sleeps are blocking calls (requests.*, time.sleep), so the    *)
(* only suspension point of a pipeline is the generative backend call.     *)
(* `running` names the pipeline that holds the loop (0: the loop is free). *)
(*                                                                         *)
(* Text (names, ids, messages) is a sequence of string tokens, so that     *)
(* formatting is concatenation and two different inputs can format to the  *)
(* same text.                                                              *)
(***************************************************************************)
EXTENDS Integers, Sequences, FiniteSets, TLC

\* ------------------------------------------------------------------ bounds

\* Number of POST /process_task requests the model lets arrive: in the
\* pipeline specifications, and in the specification of the process as built.
MaxRequests == 1
MaxRequestsBuilt == 2

\* -------------------------------------------------------- program constants

\* GitHubService.create_repository: max_attempts = 5
max_attempts == 5

\* TaskProcessor._post_with_retry: max_retries = 3 (as passed by both callers)
max_retries == 3

\* ------------------------------------------------------------------ inputs

\* Decimal formatting of the small integers the model formats.
str(n) ==
  CASE n = 0 -> "0" [] n = 1 -> "1" [] n = 2 -> "2" [] n = 3 -> "3"
    [] n = 4 -> "4" [] n = 5 -> "5" [] n = 6 -> "6" [] n = 7 -> "7"
    [] n = 8 -> "8" [] OTHER -> "9"

\* The secret the process was configured with: os.getenv("secret", "...").
ConfiguredSecrets == {<<"s3cr3t-key">>, <<"...">>}

RequestSecrets == {<<"s3cr3t-key">>, <<"wrong-secret">>}

\* Text that is read character by character (the requester's email, the
\* brief, the checks) is a sequence of one-character strings.
Placeholder == <<"$", "{", "s", "e", "e", "d", "}">>

Digit == {"0", "1", "2", "3", "4", "5", "6", "7", "8", "9"}

\* "23f1002487@ds.study.iitm.ac.in"
StudentEmail ==
  <<"2", "3", "f", "1", "0", "0", "2", "4", "8", "7", "@", "d", "s",
    ".", "s", "t", "u", "d", "y", ".", "i", "i", "t", "m", ".", "a",
    "c", ".", "i", "n">>

\* "@ds.study.iitm.ac.in"
EmailDomain ==
  <<"@", "d", "s", ".", "s", "t", "u", "d", "y", ".", "i", "i", "t", "m",
    ".", "a", "c", ".", "i", "n">>

\* Schema-valid requests (TaskRequest): round 1 of one task and round 2 of
\* another; the briefs "a${seed}" and "b${seed}c", the checks "${seed}=" and
\* "ok".
RequestShapes ==
  { [task |-> <<"captcha">>, nonce |-> <<"n1">>, round |-> 1,
     brief |-> <<"a">> \o Placeholder],
    [task |-> <<"sum">>,     nonce |-> <<"n2">>, round |-> 2,
     brief |-> <<"b">> \o Placeholder \o <<"c">>] }

Requests ==
  { [email |-> StudentEmail,
     secret |-> s, task |-> r.task, round |-> r.round, nonce |-> r.nonce,
     brief |-> r.brief,
     checks |-> <<Placeholder \o <<"=">>, <<"o", "k">> >>,
     evaluation_url |-> <<"https://eval.example/notify">>]
    : s \in RequestSecrets, r \in RequestShapes }

\* The four artifacts, in the order generate_code returns them.
FileNames == <<"index.html", "style.css", "script.js", "README.md">>

\* Formatted values of int(time.time() * 1000) % 100000 and of
\* random.randint(1000, 9999) a retry of create_repository can draw.  Two
\* draws may coincide: the timestamp wraps every 100 s and the POST carries no
\* timeout.  The pipeline specifications draw from the first pair of sets, the
\* specification of create_repository alone from the wider pair.
Timestamps == {"17"}
RandomSuffixes == {"1000"}
WideTimestamps == {"17", "42"}
WideRandomSuffixes == {"1000", "9999"}

\* The outcomes of one requests.post to the evaluation URL: a response (200
\* or an error status), a ConnectionError or Timeout
\* ("NetworkError": the two are caught together), another RequestException, or
\* an exception outside the requests hierarchy (e.g. the OSError requests
\* raises when the CA bundle cannot be read).
PostOutcomes ==
  {"200", "500", "NetworkError", "RequestException", "OSError"}

\* The artifact sets generate_code returns: the four contents in the order of
\* FileNames; a field the backend left out comes back as the empty string.
FullFiles == <<"<html>", "body{}", "run()", "# readme">>
PartialFiles == <<"<html>", "", "run()", "# readme">>
IndexOnlyFiles == <<"<html>", "", "", "">>
NoIndexFiles == <<"", "body{}", "run()", "# readme">>
NoFiles == <<"", "", "", "">>

\* What json.loads makes of a text: <<>> when it raises JSONDecodeError,
\* NotAnObject for JSON that is not an object, else the object's four fields
\* as result_data.get(key, '') reads them.
NotAnObject == <<"[]">>

\* What the generative backend call (agent.run) comes to: it raises, or it
\* returns a result without output, or one with an output text.  A text is
\* told by what each stage of the parsing would make of it: strict is
\* json.loads of the text, repair is json.loads of the text with its newlines
\* fixed, extract holds the field values _extract_json_fields_manually finds
\* ("" for a field it does not find).
BackendOutput(kind, strict, repair, extract) ==
  [kind |-> kind, strict |-> strict, repair |-> repair, extract |-> extract]

\* The outputs the pipeline specifications draw from: the call raises, the
\* text is beyond recovery, the text is an object with all four fields, or an
\* object lacking style_css.
BackendOutputs ==
  { BackendOutput("raise", <<>>, <<>>, NoFiles),
    BackendOutput("text", <<>>, <<>>, NoFiles),
    BackendOutput("text", FullFiles, FullFiles, FullFiles),
    BackendOutput("text", PartialFiles, PartialFiles, PartialFiles) }

\* The outputs the specification of the parsing alone draws from.
WideBackendOutputs ==
  { BackendOutput("raise", <<>>, <<>>, NoFiles),
    BackendOutput("no_output", <<>>, <<>>, NoFiles) }
  \cup
  { BackendOutput("text", strict, repair, extract) :
      strict \in {<<>>, NotAnObject, FullFiles, PartialFiles},
      repair \in {<<>>, NotAnObject, FullFiles, PartialFiles},
      extract \in {FullFiles, PartialFiles, IndexOnlyFiles, NoIndexFiles,
                   NoFiles} }

NoOutput == BackendOutput("none", <<>>, <<>>, NoFiles)

\* ------------------------------------------------------------------- state

VARIABLES
  PYDANTIC_AI_AVAILABLE,  \* ai_service.py: the import of pydantic_ai succeeded
  code_generator,         \* AIService._code_generator: "None" or "Agent"
  code_reviser,           \* AIService._code_reviser
  secret_key,             \* config.secret_key
  started,                \* app.py: task_processor = TaskProcessor() returned
  processing_tasks,       \* TaskProcessor.processing_tasks
  pipes,                  \* the background tasks, in the order created,
                          \* each with the prompt it passed to the backend
  running,                \* the pipeline holding the event loop, 0 if none
  fr,                     \* locals of the pipeline holding the loop
  gh_repos,               \* GitHub: repositories created
  gh_files,               \* GitHub: <<repository, file>> written
  gh_pages,               \* GitHub: repositories with Pages enabled
  http_log                \* the requests handled, each with its response

vars ==
  <<PYDANTIC_AI_AVAILABLE, code_generator, code_reviser, secret_key, started,
    processing_tasks, pipes, running, fr, gh_repos, gh_files, gh_pages,
    http_log>>

ai_vars == <<PYDANTIC_AI_AVAILABLE, code_generator, code_reviser>>
gh_vars == <<gh_repos, gh_files, gh_pages>>
http_vars == <<http_log>>

NoText == <<>>

NoResult ==
  [email |-> NoText, task |-> NoText, round |-> 0, nonce |-> NoText,
   repo_url |-> NoText, commit_sha |-> NoText, pages_url |-> NoText]

NoPayload ==
  [keys |-> {}, email |-> NoText, task |-> NoText, round |-> 0,
   nonce |-> NoText, repo_url |-> NoText, commit_sha |-> NoText,
   pages_url |-> NoText, status |-> "", error |-> NoText]

NoResponse ==
  [code |-> 0, status |-> "", processing_id |-> NoText, nonce |-> NoText,
   task |-> NoText, round |-> 0, estimated_completion_time |-> "",
   detail |-> NoText]

\* Locals of _process_task_background and of the calls it is in.  The
\* cr_* fields are create_repository's, post_attempt and slept are
\* _post_with_retry's; cr_names are the names create_repository has tried and
\* cr_last the latest; stages, raised_at, posts (the payloads POSTed, one per
\* attempt) and outcome (of the latest POST) record what the pipeline has
\* done; fault says that some outbound call of the pipeline was answered
\* with anything but success; up_probed and up_put are the files
\* upload_files has probed and has sent a write for, up_status the answer to
\* its last write, up_probe the answer to its last probe and up_sha the
\* revision token its last write carried (none: NoText), ensure what
\* _can_use_ai did about the agents in the last call of generate_code, pg_post and pg_get the answers to the calls enable_pages
\* made ("" for a call not made); output is the result agent.run returned and
\* parse_stages the stages of the parsing that were run on it; logged is the
\* level of the message the notifier
\* logged last ("" when it logged none); cr_resp is the last answer
\* create_repository received.
NoCreateResponse ==
  [status |-> "", json |-> FALSE, keys |-> {}, message |-> "", errors |-> <<>>]

InitFrame ==
  [files |-> <<>>, repo_url |-> NoText, commit_sha |-> NoText,
   pages_url |-> NoText, result |-> NoResult, err |-> NoText,
   raised_at |-> "none", stages |-> <<>>, fault |-> FALSE,
   cr_attempt |-> 0, cr_names |-> {}, cr_last |-> NoText, cr_sleeps |-> 0,
   cr_status |-> "", cr_resp |-> NoCreateResponse,
   up_idx |-> 0,
   payload |-> NoPayload, post_attempt |-> 0, slept |-> <<>>,
   posts |-> <<>>, outcome |-> "", logged |-> "",
   output |-> NoOutput, parse_stages |-> <<>>,
   up_probed |-> <<>>, up_put |-> <<>>, up_status |-> "",
   up_probe |-> "", up_sha |-> NoText, ensure |-> "",
   pg_post |-> "", pg_get |-> ""]

\* -------------------------------------------------------------- AIService

\* The attributes of the Config dataclass.
ConfigFields ==
  {"secret_key", "github_token", "aipipe_token", "aipipe_url",
   "openai_api_key", "openai_url", "log_file", "log_level"}

\* What the two Agent(...) constructions of _initialize_agents come to.
AgentOutcomes == {"ok", "generator_raises", "reviser_raises"}

\* The attributes a Config could carry: those it has, and those with the
\* openai_token that _initialize_agents reads.
ConfigVariants == {ConfigFields, ConfigFields \cup {"openai_token"}}

\* Variant of initialize_agents_in: the except block leaves the slots as
\* they are.
initialize_agents_in_no_reset(fields, gen, rev, token, ctor) ==
  IF "openai_token" \notin fields
  THEN [generator |-> gen, reviser |-> rev, raised |-> TRUE]
  ELSE IF ~token
  THEN [generator |-> gen, reviser |-> rev, raised |-> FALSE]
  ELSE IF ctor = "ok"
  THEN [generator |-> "Agent", reviser |-> "Agent", raised |-> FALSE]
  ELSE IF ctor = "reviser_raises"
  THEN [generator |-> "Agent", reviser |-> rev, raised |-> FALSE]
  ELSE [generator |-> gen, reviser |-> rev, raised |-> FALSE]

\* AIService._initialize_agents on the slots (gen, rev) for a Config with the
\* attributes fields, the token configured or not, and the outcome ctor of
\* the Agent constructions.  It reads config.openai_token first: without the
\* attribute the read raises AttributeError inside the try, and the except
\* block reads it again while logging, which raises out of the method before
\* the slots are touched.  With the attribute: no token returns with the
\* slots alone; with a token the generator is constructed, then the reviser,
\* and when either construction raises the except block sets both to None.
initialize_agents_in(fields, gen, rev, token, ctor) ==
  IF "openai_token" \notin fields
  THEN [generator |-> gen, reviser |-> rev, raised |-> TRUE]
  ELSE IF ~token
  THEN [generator |-> gen, reviser |-> rev, raised |-> FALSE]
  ELSE IF ctor = "ok"
  THEN [generator |-> "Agent", reviser |-> "Agent", raised |-> FALSE]
  ELSE [generator |-> "None", reviser |-> "None", raised |-> FALSE]

\* _initialize_agents with the Config of the sources, which has no
\* openai_token.
initialize_agents(gen, rev, token) ==
  initialize_agents_in(ConfigFields, gen, rev, token, "ok")

\* AIService.__init__ and _try_initialize_agents: both slots None, then
\* _initialize_agents when the library was imported.
AIService_init(available, token) ==
  IF available
  THEN initialize_agents("None", "None", token)
  ELSE [generator |-> "None", reviser |-> "None", raised |-> FALSE]

\* What _can_use_ai does about the agents before it answers: nothing when
\* the generator is set ("set"), else ensure_agents_initialized, which calls
\* _initialize_agents when the library was imported ("initialize") and
\* returns at once when it was not ("skip").
ensure_agents_initialized ==
  IF code_generator # "None" THEN "set"
  ELSE IF PYDANTIC_AI_AVAILABLE THEN "initialize" ELSE "skip"

\* AIService._can_use_ai with ensure_agents_initialized: "yes", "no", or
\* "raise" when the on-demand initialisation raises.
can_use_ai ==
  IF code_generator = "None" /\ PYDANTIC_AI_AVAILABLE
  THEN LET r == initialize_agents(code_generator, code_reviser, TRUE)
       IN  IF r.raised THEN "raise"
           ELSE IF r.generator # "None" THEN "yes" ELSE "no"
  ELSE IF PYDANTIC_AI_AVAILABLE /\ code_generator # "None" THEN "yes" ELSE "no"

\* The longest run of digits s starts with.
RECURSIVE LeadingDigits(_)
LeadingDigits(s) ==
  IF s = <<>> \/ s[1] \notin Digit
  THEN <<>>
  ELSE <<s[1]>> \o LeadingDigits(Tail(s))

\* re.search(r'(\d+)', email).group(1): the leftmost run of digits, each run
\* taken as long as it goes; <<>> when there is no match.
RECURSIVE re_search_digits(_)
re_search_digits(s) ==
  IF s = <<>> THEN <<>>
  ELSE IF s[1] \in Digit THEN LeadingDigits(s)
  ELSE re_search_digits(Tail(s))

\* Variant of seed: the first six of all the digits of the email.
RECURSIVE AllDigits(_)
AllDigits(s) ==
  IF s = <<>> THEN <<>>
  ELSE IF s[1] \in Digit THEN <<s[1]>> \o AllDigits(Tail(s))
  ELSE AllDigits(Tail(s))

seed_all_digits(email) ==
  LET m == AllDigits(email)
  IN  IF m = <<>>
      THEN <<"d", "e", "f", "a", "u", "l", "t">>
      ELSE SubSeq(m, 1, IF Len(m) < 6 THEN Len(m) ELSE 6)

\* Variant of seed: the longest run of digits of the email, the leftmost of
\* the longest ones.
RECURSIVE LongestDigits(_)
LongestDigits(s) ==
  IF s = <<>> THEN <<>>
  ELSE LET here == LeadingDigits(s)
           rest == LongestDigits(Tail(s))
       IN  IF Len(here) >= Len(rest) THEN here ELSE rest

seed_longest_run(email) ==
  LET m == LongestDigits(email)
  IN  IF m = <<>>
      THEN <<"d", "e", "f", "a", "u", "l", "t">>
      ELSE SubSeq(m, 1, IF Len(m) < 6 THEN Len(m) ELSE 6)

\* The seed _process_seed_placeholders derives from the email:
\* match.group(1)[:6], "default" without a match or without an email.
seed(email) ==
  LET m == re_search_digits(email)
  IN  IF m = <<>>
      THEN <<"d", "e", "f", "a", "u", "l", "t">>
      ELSE SubSeq(m, 1, IF Len(m) < 6 THEN Len(m) ELSE 6)

StartsWith(t, p) == Len(t) >= Len(p) /\ SubSeq(t, 1, Len(p)) = p

\* p in t
RECURSIVE Contains(_, _)
Contains(t, p) ==
  IF Len(t) < Len(p) THEN FALSE
  ELSE StartsWith(t, p) \/ Contains(Tail(t), p)

\* t.replace(p, r): the occurrences of p are found from the left and do not
\* overlap.
RECURSIVE Replace(_, _, _)
Replace(t, p, r) ==
  IF Len(t) < Len(p) THEN t
  ELSE IF StartsWith(t, p)
  THEN r \o Replace(SubSeq(t, Len(p) + 1, Len(t)), p, r)
  ELSE <<t[1]>> \o Replace(Tail(t), p, r)

\* AIService._process_seed_placeholders
process_seed_placeholders(text, email) ==
  IF text = <<>> \/ ~Contains(text, Placeholder)
  THEN text
  ELSE Replace(text, Placeholder, seed(email))

\* Variant of user_prompt: in revision mode the checks go into the prompt as
\* they came.
user_prompt_raw_checks(req, files) ==
  [mode |-> IF req.round = 1 THEN "generate" ELSE "revise",
   brief |-> process_seed_placeholders(req.brief, req.email),
   checks |-> IF req.round = 1
              THEN [k \in DOMAIN req.checks |->
                      process_seed_placeholders(req.checks[k], req.email)]
              ELSE req.checks,
   existing_files |-> IF req.round = 1 THEN <<>> ELSE files]

\* What _generate_with_ai puts into the prompt it passes to agent.run: the
\* mode, the processed brief, the processed checks and, in revision mode, the
\* files under "CURRENT IMPLEMENTATION TO REVISE".
user_prompt(req, files) ==
  [mode |-> IF req.round = 1 THEN "generate" ELSE "revise",
   brief |-> process_seed_placeholders(req.brief, req.email),
   checks |-> [k \in DOMAIN req.checks |->
                 process_seed_placeholders(req.checks[k], req.email)],
   existing_files |-> IF req.round = 1 THEN <<>> ELSE files]

NoPrompt ==
  [mode |-> "none", brief |-> <<>>, checks |-> <<>>, existing_files |-> <<>>]

\* --------------------------------------------------------------- formatting

\* uuid.uuid4().hex[:8]: 8 hexadecimal digits drawn at random.  The pipeline
\* specifications take the draw of the n-th accepted request to differ from
\* the others; the specification of the tracking ids draws it from Uuid8.
uuid4_hex8(n) == <<"u", str(n)>>

Uuid8 == {uuid4_hex8(1), uuid4_hex8(2)}

\* f"{task}-{nonce}-{round}-{uuid4().hex[:8]}"
ProcessingIdOf(req, hex8) ==
  req.task \o <<"-">> \o req.nonce \o <<"-", str(req.round), "-">> \o hex8

ProcessingId(req, n) == ProcessingIdOf(req, uuid4_hex8(n))

\* The revision round asking for the name of round 1.
RepoName_without_round(req) == req.task \o <<"-">> \o req.nonce

\* repo_name of _process_initial_task_background (round 1) and of
\* _process_revision_task_background (any other round).
RepoName(req) ==
  IF req.round = 1
  THEN req.task \o <<"-">> \o req.nonce
  ELSE req.task \o <<"-">> \o req.nonce \o <<"-", "r", str(req.round)>>

\* create_repository: f"{original_name}-{timestamp}-{random_suffix}"
RetryName(original, ts, rnd) == original \o <<"-", ts, "-", rnd>>

\* html_url of a created repository, and upload_files' / enable_pages'
\* repo_url.split("github.com/")[-1]
HtmlUrl(name) == <<"https://", "github.com/", "owner", "/">> \o name
RepoOfUrl(url) == SubSeq(url, 3, Len(url))

PagesUrl(repo) == <<"https://", "owner", ".github.io/">> \o SubSeq(repo, 3, Len(repo))

\* The patterns of TaskResponse: a URL is http(s)://..., a commit id is not
\* empty.
UrlOk(url) == Len(url) >= 2 /\ url[1] \in {"https://", "http://"}

\* ------------------------------------------------------------------- start

TypeOK ==
  /\ PYDANTIC_AI_AVAILABLE \in BOOLEAN
  /\ code_generator \in {"None", "Agent"}
  /\ code_reviser \in {"None", "Agent"}
  /\ secret_key \in ConfiguredSecrets
  /\ started \in BOOLEAN
  /\ running \in 0..Len(pipes)
  /\ Len(http_log) <= MaxRequestsBuilt

InitRest ==
  /\ secret_key \in ConfiguredSecrets
  /\ processing_tasks = <<>>
  /\ pipes = <<>>
  /\ running = 0
  /\ fr = InitFrame
  /\ gh_repos = {}
  /\ gh_files = {}
  /\ gh_pages = {}
  /\ http_log = <<>>

\* The process as built: TaskProcessor() constructs the AIService; the app
\* serves requests only if that construction returned.
InitBuilt ==
  /\ PYDANTIC_AI_AVAILABLE \in BOOLEAN
  /\ \E token \in BOOLEAN :
       LET r == AIService_init(PYDANTIC_AI_AVAILABLE, token)
       IN  /\ code_generator = r.generator
           /\ code_reviser = r.reviser
           /\ started = ~r.raised
  /\ InitRest

\* A serving process with the AIService in any state of its agent slots:
\* agents unset without or with the library, or both agents set.  The last is
\* what _initialize_agents leaves when Config carries the attribute it reads;
\* the construction in the sources (InitBuilt) never gets there, so the steps
\* of the pipeline after generation are studied from these states.
AIServiceStates ==
  { [available |-> FALSE, agents |-> "None"],
    [available |-> TRUE, agents |-> "None"],
    [available |-> TRUE, agents |-> "Agent"] }

Init ==
  /\ \E a \in AIServiceStates :
       /\ PYDANTIC_AI_AVAILABLE = a.available
       /\ code_generator = a.agents
       /\ code_reviser = a.agents
  /\ started = TRUE
  /\ InitRest

\* ------------------------------------------------------------ HTTP handler

\* The loop is free for an I/O event (a request, a backend reply): nothing
\* holds it and no created task is waiting for its first step.
LoopFree ==
  /\ running = 0
  /\ \A i \in 1..Len(pipes) : pipes[i].pc # "scheduled"

NewRecord ==
  [status |-> "processing", has_result |-> FALSE, result |-> NoResult,
   has_error |-> FALSE, error |-> NoText]

\* TaskProcessor.validate_credentials
validate_credentials(secret) == secret = secret_key

\* Variant of Acceptance: the payload names the nonce where the task belongs.
Acceptance_nonce_as_task(req, pid) ==
  [code |-> 200, status |-> "accepted", processing_id |-> pid,
   nonce |-> req.nonce, task |-> req.nonce, round |-> req.round,
   estimated_completion_time |-> "30-45 seconds", detail |-> NoText]

\* The acceptance payload returned by TaskProcessor.process_task.
Acceptance(req, pid) ==
  [code |-> 200, status |-> "accepted", processing_id |-> pid,
   nonce |-> req.nonce, task |-> req.task, round |-> req.round,
   estimated_completion_time |-> "30-45 seconds", detail |-> NoText]

Forbidden ==
  [NoResponse EXCEPT !.code = 403,
     !.detail = <<"Forbidden: Invalid secret key">>]

\* Variant of HandleRequest: the record is stored before the secret is
\* checked.
HandleRequest_record_first(req, limit) ==
  /\ started
  /\ LoopFree
  /\ Len(http_log) < limit
  /\ LET pid == ProcessingId(req, Len(pipes) + 1)
     IN  /\ processing_tasks' =
              [k \in DOMAIN processing_tasks \cup {pid} |->
                 IF k = pid THEN NewRecord ELSE processing_tasks[k]]
         /\ IF ~validate_credentials(req.secret)
            THEN /\ http_log' =
                      Append(http_log, [req |-> req, resp |-> Forbidden])
                 /\ pipes' = pipes
            ELSE /\ pipes' = Append(pipes, [pid |-> pid, req |-> req,
                                            pc |-> "scheduled",
                                         prompt |-> NoPrompt])
                 /\ http_log' =
                      Append(http_log,
                             [req |-> req, resp |-> Acceptance(req, pid)])
  /\ UNCHANGED <<ai_vars, secret_key, started, running, fr, gh_vars>>

\* Variant of HandleRequest: the pipeline is awaited in the handler instead of
\* being created as a task, so its first step has run when the response is
\* returned.
HandleRequest_inline(req, limit) ==
  /\ started
  /\ LoopFree
  /\ Len(http_log) < limit
  /\ IF ~validate_credentials(req.secret)
     THEN /\ http_log' = Append(http_log, [req |-> req, resp |-> Forbidden])
          /\ UNCHANGED <<processing_tasks, pipes, running, fr>>
     ELSE LET pid == ProcessingId(req, Len(pipes) + 1)
          IN  /\ processing_tasks' =
                   [k \in DOMAIN processing_tasks \cup {pid} |->
                      IF k = pid
                      THEN [NewRecord EXCEPT !.status = "generating_code"]
                      ELSE processing_tasks[k]]
              /\ pipes' = Append(pipes, [pid |-> pid, req |-> req,
                                         pc |-> "generate",
                                         prompt |-> NoPrompt])
              /\ running' = Len(pipes) + 1
              /\ fr' = [InitFrame EXCEPT !.stages = <<"generating_code">>]
              /\ http_log' = Append(http_log,
                               [req |-> req, resp |-> Acceptance(req, pid)])
  /\ UNCHANGED <<ai_vars, secret_key, started, gh_vars>>

\* app.process_task with TaskProcessor.process_task, for a schema-valid
\* request: a wrong secret raises ValueError, answered 403; otherwise the
\* record is stored, the background task is created and the acceptance
\* payload is returned.
HandleRequestWith(req, limit, hex8) ==
  /\ started
  /\ LoopFree
  /\ Len(http_log) < limit
  /\ IF ~validate_credentials(req.secret)
     THEN /\ http_log' = Append(http_log, [req |-> req, resp |-> Forbidden])
          /\ UNCHANGED <<processing_tasks, pipes>>
     ELSE LET pid == ProcessingIdOf(req, hex8)
          IN  /\ processing_tasks' =
                   [k \in DOMAIN processing_tasks \cup {pid} |->
                      IF k = pid THEN NewRecord ELSE processing_tasks[k]]
              /\ pipes' = Append(pipes, [pid |-> pid, req |-> req,
                                         pc |-> "scheduled",
                                         prompt |-> NoPrompt])
              /\ http_log' = Append(http_log,
                               [req |-> req, resp |-> Acceptance(req, pid)])
  /\ UNCHANGED <<ai_vars, secret_key, started, running, fr, gh_vars>>

HandleRequest(req, limit) ==
  HandleRequestWith(req, limit, uuid4_hex8(Len(pipes) + 1))

ProcessTask(req) == HandleRequest(req, MaxRequests)

ProcessTaskBuilt(req) == HandleRequest(req, MaxRequestsBuilt)

\* ------------------------------------------------------ background pipeline

Pid(i) == pipes[i].pid
Req(i) == pipes[i].req

Holds(i, pc) == i \in 1..Len(pipes) /\ running = i /\ pipes[i].pc = pc

Stage(f, s) ==
  IF f.stages # <<>> /\ f.stages[Len(f.stages)] = s
  THEN f.stages ELSE Append(f.stages, s)

\* An exception leaves the try block of _process_task_background.
Raised(f, at, msg) == [f EXCEPT !.err = msg, !.raised_at = at]

\* First step of the created task: _process_task_background up to the call of
\* generate_code; the record is marked generating_code.
Start(i) ==
  /\ i \in 1..Len(pipes)
  /\ running = 0
  /\ pipes[i].pc = "scheduled"
  /\ running' = i
  /\ processing_tasks' =
       IF Pid(i) \in DOMAIN processing_tasks
       THEN [processing_tasks EXCEPT ![Pid(i)].status = "generating_code"]
       ELSE processing_tasks
  /\ fr' = [InitFrame EXCEPT !.stages = <<"generating_code">>]
  /\ pipes' = [pipes EXCEPT ![i].pc = "generate"]
  /\ UNCHANGED <<ai_vars, secret_key, started, gh_vars, http_vars>>

\* _process_revision_task_background: existing_files = {}
existing_files == <<>>

\* generate_code answering with template files when no backend can be used.
Generate_template_fallback(i) ==
  /\ Holds(i, "generate")
  /\ LET use == can_use_ai
         agent == IF Req(i).round = 1 THEN code_generator ELSE code_reviser
         f == [fr EXCEPT !.stages = Stage(fr, "generate"),
                         !.ensure = ensure_agents_initialized]
     IN  IF use = "yes" /\ agent # "None"
         THEN /\ running' = 0
              /\ fr' = InitFrame
              /\ pipes' = [pipes EXCEPT ![i].pc = "awaiting",
                                        ![i].prompt =
                                          user_prompt(Req(i), existing_files)]
         ELSE /\ running' = running
              /\ fr' = [f EXCEPT !.files = FullFiles]
              /\ pipes' = [pipes EXCEPT ![i].pc = "create"]
  /\ UNCHANGED <<ai_vars, secret_key, started, processing_tasks, gh_vars,
                 http_vars>>

\* AIService.generate_code up to the backend call: without a usable agent it
\* raises at once (no suspension); with one, the coroutine suspends in
\* agent.run and gives up the loop.
Generate(i) ==
  /\ Holds(i, "generate")
  /\ LET use == can_use_ai
         agent == IF Req(i).round = 1 THEN code_generator ELSE code_reviser
         f == [fr EXCEPT !.stages = Stage(fr, "generate"),
                         !.ensure = ensure_agents_initialized]
     IN  IF use = "yes" /\ agent # "None"
         THEN /\ running' = 0
              /\ fr' = InitFrame
              /\ pipes' = [pipes EXCEPT ![i].pc = "awaiting",
                                        ![i].prompt =
                                          user_prompt(Req(i), existing_files)]
         ELSE /\ running' = running
              /\ fr' = Raised(f, "generate",
                         IF use = "raise"
                         THEN <<"Code generation failed: ",
                                "'Config' object has no attribute 'openai_token'">>
                         ELSE IF use = "no"
                         THEN <<"Code generation failed: ",
                                "AI service not available - pydantic-ai not installed or configured">>
                         ELSE <<"Code generation failed: ",
                                "'NoneType' object has no attribute 'run'">>)
              /\ pipes' = [pipes EXCEPT ![i].pc = "except"]
  /\ UNCHANGED <<ai_vars, secret_key, started, processing_tasks, gh_vars,
                 http_vars>>

\* generate_code for a Config with the attributes fields, the token
\* configured or not and the outcome ctor of the Agent constructions: as
\* Generate, with the slots left as the initialisation on demand leaves
\* them.
GenerateWith(i, fields, token, ctor) ==
  /\ Holds(i, "generate")
  /\ LET r == IF ensure_agents_initialized = "initialize"
              THEN initialize_agents_in(fields, code_generator, code_reviser,
                                        token, ctor)
              ELSE [generator |-> code_generator, reviser |-> code_reviser,
                    raised |-> FALSE]
         use == IF r.raised THEN "raise"
                ELSE IF PYDANTIC_AI_AVAILABLE /\ r.generator # "None"
                THEN "yes" ELSE "no"
         agent == IF Req(i).round = 1 THEN r.generator ELSE r.reviser
         f == [fr EXCEPT !.stages = Stage(fr, "generate"),
                         !.ensure = ensure_agents_initialized]
     IN  /\ code_generator' = r.generator
         /\ code_reviser' = r.reviser
         /\ IF use = "yes" /\ agent # "None"
            THEN /\ running' = 0
                 /\ fr' = InitFrame
                 /\ pipes' = [pipes EXCEPT ![i].pc = "awaiting",
                                           ![i].prompt =
                                             user_prompt(Req(i), existing_files)]
            ELSE /\ running' = running
                 /\ fr' = Raised(f, "generate",
                            IF use = "raise"
                            THEN <<"Code generation failed: ",
                                   "'Config' object has no attribute 'openai_token'">>
                            ELSE IF use = "no"
                            THEN <<"Code generation failed: ",
                                   "AI service not available - pydantic-ai not installed or configured">>
                            ELSE <<"Code generation failed: ",
                                   "'NoneType' object has no attribute 'run'">>)
                 /\ pipes' = [pipes EXCEPT ![i].pc = "except"]
  /\ UNCHANGED <<PYDANTIC_AI_AVAILABLE, secret_key, started, processing_tasks,
                 gh_vars, http_vars>>

\* The parsing with a third stage that takes whatever the extraction found.
parse_ladder_extract_unchecked(o) ==
  IF o.strict # <<>>
  THEN [stages |-> <<"strict">>, data |-> o.strict]
  ELSE IF o.repair # <<>>
  THEN [stages |-> <<"strict", "repair">>, data |-> o.repair]
  ELSE [stages |-> <<"strict", "repair", "extract">>, data |-> o.extract]

\* The parsing of the output text in _generate_with_ai: json.loads; on
\* JSONDecodeError json.loads of the text with its newlines fixed; on
\* JSONDecodeError again _extract_json_fields_manually, which returns its
\* fields only with a non-empty index_html; failing that, the first error is
\* raised again.  data is <<>> when the parsing raised.
parse_ladder(o) ==
  IF o.strict # <<>>
  THEN [stages |-> <<"strict">>, data |-> o.strict]
  ELSE IF o.repair # <<>>
  THEN [stages |-> <<"strict", "repair">>, data |-> o.repair]
  ELSE IF o.extract[1] # ""
  THEN [stages |-> <<"strict", "repair", "extract">>, data |-> o.extract]
  ELSE [stages |-> <<"strict", "repair", "extract">>, data |-> <<>>]

\* The backend call returns or raises and _generate_with_ai turns the output
\* into the artifact set, or raises; generate_code wraps what is raised.
GenReturn(i, o) ==
  /\ i \in 1..Len(pipes)
  /\ LoopFree
  /\ pipes[i].pc = "awaiting"
  /\ running' = i
  /\ LET p == parse_ladder(o)
         f == [InitFrame EXCEPT
                 !.stages = <<"generating_code", "generate">>,
                 !.output = o,
                 !.parse_stages = IF o.kind = "text" THEN p.stages ELSE <<>>,
                 !.fault = (o.kind # "text" \/ o.strict # FullFiles)]
     IN  CASE o.kind = "raise" ->
                /\ fr' = Raised(f, "generate",
                           <<"Code generation failed: ", "backend error">>)
                /\ pipes' = [pipes EXCEPT ![i].pc = "except"]
           [] o.kind = "no_output" ->
                /\ fr' = Raised(f, "generate",
                           <<"Code generation failed: ",
                             "Failed to process AI result: ",
                             "No output found in AI result">>)
                /\ pipes' = [pipes EXCEPT ![i].pc = "except"]
           [] o.kind = "text" /\ p.data = <<>> ->
                /\ fr' = Raised(f, "generate",
                           <<"Code generation failed: ",
                             "AI returned invalid JSON: ", "Expecting value">>)
                /\ pipes' = [pipes EXCEPT ![i].pc = "except"]
           [] o.kind = "text" /\ p.data = NotAnObject ->
                /\ fr' = Raised(f, "generate",
                           <<"Code generation failed: ",
                             "Failed to process AI result: ",
                             "'list' object has no attribute 'get'">>)
                /\ pipes' = [pipes EXCEPT ![i].pc = "except"]
           [] OTHER ->
                /\ fr' = [f EXCEPT !.files = p.data]
                /\ pipes' = [pipes EXCEPT ![i].pc = "create"]
  /\ UNCHANGED <<ai_vars, secret_key, started, processing_tasks, gh_vars,
                 http_vars>>

\* An answer to POST /user/repos: its status code ("raise" when requests.post
\* raised instead of answering), whether its body parses as JSON, the keys of
\* the JSON object among 'message' and 'errors', and their values.  A message
\* of an error entry is a sequence of words.
CreateResponse(status, json, keys, message, errors) ==
  [status |-> status, json |-> json, keys |-> keys, message |-> message,
   errors |-> errors]

Created == CreateResponse("201", TRUE, {}, "", <<>>)

NameExists ==
  CreateResponse("422", TRUE, {"message", "errors"}, "Repository creation failed.",
    <<[field |-> "name",
       message |-> <<"name", "already", "exists", "on", "this", "account">>]>>)

BadCredentials == CreateResponse("401", TRUE, {"message"}, "Bad credentials", <<>>)

Unreachable == CreateResponse("raise", FALSE, {}, "", <<>>)

\* One answer of each kind create_repository tells apart.
CreateResponses == {Created, NameExists, BadCredentials, Unreachable}

\* Further answers: a collision reported after another error or in capitals,
\* a 422 about something else, a name error that is no collision, a collision
\* text on another field, a collision body under another status, an object
\* without a message, and a body that is not JSON.
WideCreateResponses ==
  CreateResponses \cup
  {CreateResponse("422", TRUE, {"message", "errors"}, "Validation Failed",
     <<[field |-> "description", message |-> <<"is", "too", "long">>],
       [field |-> "name", message |-> <<"name", "already", "exists">>]>>),
   CreateResponse("422", TRUE, {"message", "errors"}, "Validation Failed",
     <<[field |-> "name", message |-> <<"Name", "Already", "Exists">>]>>),
   CreateResponse("422", TRUE, {"message", "errors"}, "Validation Failed",
     <<[field |-> "name", message |-> <<"name", "is", "too", "long">>]>>),
   CreateResponse("422", TRUE, {"message", "errors"}, "Validation Failed",
     <<[field |-> "license_template",
        message |-> <<"already", "exists">>]>>),
   CreateResponse("422", TRUE, {"message"}, "Validation Failed", <<>>),
   CreateResponse("403", TRUE, {"message", "errors"}, "Forbidden",
     <<[field |-> "name", message |-> <<"name", "already", "exists">>]>>),
   CreateResponse("500", TRUE, {}, "", <<>>),
   CreateResponse("502", FALSE, {}, "", <<>>)}

\* str.lower() on the words of an error message
lower(words) ==
  [k \in 1..Len(words) |->
     CASE words[k] = "Name" -> "name"
       [] words[k] = "Already" -> "already"
       [] words[k] = "Exists" -> "exists"
       [] OTHER -> words[k]]

\* is_duplicate as create_repository computes it from a JSON answer
is_duplicate(response) ==
  /\ response.status = "422"
  /\ "errors" \in response.keys
  /\ \E k \in 1..Len(response.errors) :
       /\ response.errors[k].field = "name"
       /\ Contains(lower(response.errors[k].message), <<"already", "exists">>)

\* The branch one iteration of create_repository takes on an answer.
response_kind(response) ==
  CASE response.status = "raise" -> "raise"
    [] response.status = "201" -> "201"
    [] ~response.json -> "not_json"
    [] is_duplicate(response) -> "422_name_exists"
    [] OTHER -> "other"

\* response_data.get('message', 'Unknown error')
response_message(response) ==
  IF "message" \in response.keys THEN response.message ELSE "Unknown error"

\* create_repository taking the repository that exists under the name when
\* GitHub answers a collision.
CreateAttempt_reuses_existing(i, ts, rnd, resp) ==
  /\ Holds(i, "create")
  /\ fr.cr_attempt < max_attempts
  /\ LET kind == response_kind(resp)
         attempt == fr.cr_attempt + 1
         original_name == RepoName(Req(i))
         current_name == IF attempt > 1
                         THEN RetryName(original_name, ts, rnd)
                         ELSE original_name
         f == [fr EXCEPT !.stages = Stage(fr, "create"),
                         !.cr_attempt = attempt,
                         !.cr_names = fr.cr_names \cup {current_name},
                         !.cr_last = current_name,
                         !.cr_resp = resp,
                         !.fault = (fr.fault \/ kind # "201")]
     IN  /\ kind = "201" => current_name \notin gh_repos
         /\ CASE kind = "201" ->
                  /\ gh_repos' = gh_repos \cup {current_name}
                  /\ fr' = [f EXCEPT !.repo_url = HtmlUrl(current_name),
                                     !.cr_status = "returned"]
                  /\ pipes' = [pipes EXCEPT ![i].pc = "upload"]
             [] kind = "422_name_exists" ->
                  /\ gh_repos' = gh_repos
                  /\ IF attempt < max_attempts
                     THEN /\ fr' = [f EXCEPT !.repo_url = HtmlUrl(current_name),
                                             !.cr_status = "returned"]
                          /\ pipes' = [pipes EXCEPT ![i].pc = "upload"]
                     ELSE /\ fr' = Raised(
                                 [f EXCEPT !.cr_sleeps = fr.cr_sleeps + 1,
                                           !.cr_status = "raised"],
                                 "create",
                                 <<"GitHub repository creation failed: ",
                                   "Unable to generate unique repository name after ",
                                   str(max_attempts), " attempts">>)
                          /\ pipes' = [pipes EXCEPT ![i].pc = "except"]
             [] kind = "other" ->
                  /\ gh_repos' = gh_repos
                  /\ fr' = Raised([f EXCEPT !.cr_status = "raised"], "create",
                             <<"GitHub repository creation failed: ",
                               response_message(resp)>>)
                  /\ pipes' = [pipes EXCEPT ![i].pc = "except"]
             [] kind = "not_json" ->
                  /\ gh_repos' = gh_repos
                  /\ fr' = Raised([f EXCEPT !.cr_status = "raised"], "create",
                             <<"Expecting value">>)
                  /\ pipes' = [pipes EXCEPT ![i].pc = "except"]
             [] OTHER ->
                  /\ gh_repos' = gh_repos
                  /\ fr' = Raised([f EXCEPT !.cr_status = "raised"], "create",
                             <<"ConnectionError">>)
                  /\ pipes' = [pipes EXCEPT ![i].pc = "except"]
  /\ UNCHANGED <<ai_vars, secret_key, started, processing_tasks, running,
                 gh_files, gh_pages, http_vars>>

\* create_repository with every failed answer retried like a collision
CreateAttempt_retries_other(i, ts, rnd, resp) ==
  /\ Holds(i, "create")
  /\ fr.cr_attempt < max_attempts
  /\ LET kind == IF response_kind(resp) = "other"
                 THEN "422_name_exists"
                 ELSE response_kind(resp)
         attempt == fr.cr_attempt + 1
         original_name == RepoName(Req(i))
         current_name == IF attempt > 1
                         THEN RetryName(original_name, ts, rnd)
                         ELSE original_name
         f == [fr EXCEPT !.stages = Stage(fr, "create"),
                         !.cr_attempt = attempt,
                         !.cr_names = fr.cr_names \cup {current_name},
                         !.cr_last = current_name,
                         !.cr_resp = resp,
                         !.fault = (fr.fault \/ kind # "201")]
     IN  /\ kind = "201" => current_name \notin gh_repos
         /\ CASE kind = "201" ->
                  /\ gh_repos' = gh_repos \cup {current_name}
                  /\ fr' = [f EXCEPT !.repo_url = HtmlUrl(current_name),
                                     !.cr_status = "returned"]
                  /\ pipes' = [pipes EXCEPT ![i].pc = "upload"]
             [] kind = "422_name_exists" ->
                  /\ gh_repos' = gh_repos
                  /\ IF attempt < max_attempts
                     THEN /\ fr' = [f EXCEPT !.cr_sleeps = fr.cr_sleeps + 1]
                          /\ pipes' = pipes
                     ELSE /\ fr' = Raised(
                                 [f EXCEPT !.cr_sleeps = fr.cr_sleeps + 1,
                                           !.cr_status = "raised"],
                                 "create",
                                 <<"GitHub repository creation failed: ",
                                   "Unable to generate unique repository name after ",
                                   str(max_attempts), " attempts">>)
                          /\ pipes' = [pipes EXCEPT ![i].pc = "except"]
             [] kind = "other" ->
                  /\ gh_repos' = gh_repos
                  /\ fr' = Raised([f EXCEPT !.cr_status = "raised"], "create",
                             <<"GitHub repository creation failed: ",
                               response_message(resp)>>)
                  /\ pipes' = [pipes EXCEPT ![i].pc = "except"]
             [] kind = "not_json" ->
                  /\ gh_repos' = gh_repos
                  /\ fr' = Raised([f EXCEPT !.cr_status = "raised"], "create",
                             <<"Expecting value">>)
                  /\ pipes' = [pipes EXCEPT ![i].pc = "except"]
             [] OTHER ->
                  /\ gh_repos' = gh_repos
                  /\ fr' = Raised([f EXCEPT !.cr_status = "raised"], "create",
                             <<"ConnectionError">>)
                  /\ pipes' = [pipes EXCEPT ![i].pc = "except"]
  /\ UNCHANGED <<ai_vars, secret_key, started, processing_tasks, running,
                 gh_files, gh_pages, http_vars>>

\* One iteration of the loop of GitHubService.create_repository.  GitHub
\* answers 201 only for a name it does not hold yet; it may answer a collision
\* for any name (the account's other repositories are not known).
CreateAttempt(i, ts, rnd, resp) ==
  /\ Holds(i, "create")
  /\ fr.cr_attempt < max_attempts
  /\ LET kind == response_kind(resp)
         attempt == fr.cr_attempt + 1
         original_name == RepoName(Req(i))
         current_name == IF attempt > 1
                         THEN RetryName(original_name, ts, rnd)
                         ELSE original_name
         f == [fr EXCEPT !.stages = Stage(fr, "create"),
                         !.cr_attempt = attempt,
                         !.cr_names = fr.cr_names \cup {current_name},
                         !.cr_last = current_name,
                         !.cr_resp = resp,
                         !.fault = (fr.fault \/ kind # "201")]
     IN  /\ kind = "201" => current_name \notin gh_repos
         /\ CASE kind = "201" ->
                  /\ gh_repos' = gh_repos \cup {current_name}
                  /\ fr' = [f EXCEPT !.repo_url = HtmlUrl(current_name),
                                     !.cr_status = "returned"]
                  /\ pipes' = [pipes EXCEPT ![i].pc = "upload"]
             [] kind = "422_name_exists" ->
                  /\ gh_repos' = gh_repos
                  /\ IF attempt < max_attempts
                     THEN /\ fr' = [f EXCEPT !.cr_sleeps = fr.cr_sleeps + 1]
                          /\ pipes' = pipes
                     ELSE /\ fr' = Raised(
                                 [f EXCEPT !.cr_sleeps = fr.cr_sleeps + 1,
                                           !.cr_status = "raised"],
                                 "create",
                                 <<"GitHub repository creation failed: ",
                                   "Unable to generate unique repository name after ",
                                   str(max_attempts), " attempts">>)
                          /\ pipes' = [pipes EXCEPT ![i].pc = "except"]
             [] kind = "other" ->
                  /\ gh_repos' = gh_repos
                  /\ fr' = Raised([f EXCEPT !.cr_status = "raised"], "create",
                             <<"GitHub repository creation failed: ",
                               response_message(resp)>>)
                  /\ pipes' = [pipes EXCEPT ![i].pc = "except"]
             [] kind = "not_json" ->
                  /\ gh_repos' = gh_repos
                  /\ fr' = Raised([f EXCEPT !.cr_status = "raised"], "create",
                             <<"Expecting value">>)
                  /\ pipes' = [pipes EXCEPT ![i].pc = "except"]
             [] OTHER ->
                  /\ gh_repos' = gh_repos
                  /\ fr' = Raised([f EXCEPT !.cr_status = "raised"], "create",
                             <<"ConnectionError">>)
                  /\ pipes' = [pipes EXCEPT ![i].pc = "except"]
  /\ UNCHANGED <<ai_vars, secret_key, started, processing_tasks, running,
                 gh_files, gh_pages, http_vars>>

\* create_repository's locals are gone once it has returned.
LeftCreate(f) ==
  [f EXCEPT !.cr_attempt = 0, !.cr_names = {}, !.cr_last = NoText,
            !.cr_sleeps = 0, !.cr_status = "", !.cr_resp = NoCreateResponse]

\* The locals of _process_initial_task_background (or of the revision
\* variant) are gone once it has returned or raised.
LeftRound(f) ==
  [LeftCreate(f) EXCEPT !.files = <<>>, !.output = NoOutput,
                        !.parse_stages = <<>>, !.repo_url = NoText,
                        !.commit_sha = NoText, !.pages_url = NoText,
                        !.up_idx = 0, !.up_probed = <<>>,
                        !.up_put = <<>>, !.up_status = "",
                        !.up_probe = "", !.up_sha = NoText,
                        !.pg_post = "", !.pg_get = "", !.ensure = ""]

\* get_response and payload are locals of _upload_single_file: the frame
\* keeps the latest ones until upload_files has returned.
LeftUpload(f) == [f EXCEPT !.up_probe = "", !.up_sha = NoText]

\* get_response.json()["sha"] for an existing file
BlobSha(name) == <<"blob-", name>>

ProbeResponses == {"200", "404", "raise"}
PutResponses == {"201", "422", "raise"}

\* upload_files returning after the first file.
UploadFile_first_only(i, probe, put) ==
  /\ Holds(i, "upload")
  /\ fr.up_idx < Len(FileNames)
  /\ LET k == fr.up_idx + 1
         name == FileNames[k]
         repo == RepoOfUrl(fr.repo_url)
         f == [LeftCreate(fr) EXCEPT
                 !.stages = Stage(fr, "upload"),
                 !.up_probed = Append(fr.up_probed, name),
                 !.up_put = IF probe = "raise" THEN fr.up_put
                            ELSE Append(fr.up_put, name),
                 !.up_status = IF probe = "raise" THEN "" ELSE put,
                 !.up_probe = probe,
                 !.up_sha = IF probe = "200" THEN BlobSha(name) ELSE NoText,
                 !.fault = (fr.fault \/ probe = "raise" \/ put # "201")]
     IN  IF probe = "raise" \/ put = "raise"
         THEN /\ fr' = Raised(f, "upload", <<"ConnectionError">>)
              /\ pipes' = [pipes EXCEPT ![i].pc = "except"]
              /\ gh_files' = gh_files
         ELSE IF put = "422"
         THEN /\ fr' = Raised(f, "upload", <<"Failed to upload ", name>>)
              /\ pipes' = [pipes EXCEPT ![i].pc = "except"]
              /\ gh_files' = gh_files
         ELSE /\ gh_files' = gh_files \cup {<<repo, name>>}
              /\ fr' = [LeftUpload(f) EXCEPT !.up_idx = k,
                                            !.commit_sha = <<"sha-", name>>]
              /\ pipes' = [pipes EXCEPT ![i].pc = "pages"]
  /\ UNCHANGED <<ai_vars, secret_key, started, processing_tasks, running,
                 gh_repos, gh_pages, http_vars>>

\* upload_files going on to the next file after a write that failed.
UploadFile_skips_failed(i, probe, put) ==
  /\ Holds(i, "upload")
  /\ fr.up_idx < Len(FileNames)
  /\ LET k == fr.up_idx + 1
         name == FileNames[k]
         repo == RepoOfUrl(fr.repo_url)
         f == [LeftCreate(fr) EXCEPT
                 !.stages = Stage(fr, "upload"),
                 !.up_probed = Append(fr.up_probed, name),
                 !.up_put = IF probe = "raise" THEN fr.up_put
                            ELSE Append(fr.up_put, name),
                 !.up_status = IF probe = "raise" THEN "" ELSE put,
                 !.up_probe = probe,
                 !.up_sha = IF probe = "200" THEN BlobSha(name) ELSE NoText,
                 !.fault = (fr.fault \/ probe = "raise" \/ put # "201")]
     IN  IF probe = "raise" \/ put = "raise"
         THEN /\ fr' = Raised(f, "upload", <<"ConnectionError">>)
              /\ pipes' = [pipes EXCEPT ![i].pc = "except"]
              /\ gh_files' = gh_files
         ELSE IF put = "422"
         THEN /\ fr' = [(IF k = Len(FileNames) THEN LeftUpload(f) ELSE f)
                           EXCEPT !.up_idx = k]
              /\ pipes' = [pipes EXCEPT ![i].pc =
                             IF k = Len(FileNames) THEN "pages" ELSE "upload"]
              /\ gh_files' = gh_files
         ELSE /\ gh_files' = gh_files \cup {<<repo, name>>}
              /\ fr' = [(IF k = Len(FileNames) THEN LeftUpload(f) ELSE f)
                           EXCEPT !.up_idx = k,
                                  !.commit_sha = <<"sha-", name>>]
              /\ pipes' = [pipes EXCEPT ![i].pc =
                             IF k = Len(FileNames) THEN "pages" ELSE "upload"]
  /\ UNCHANGED <<ai_vars, secret_key, started, processing_tasks, running,
                 gh_repos, gh_pages, http_vars>>

\* _upload_single_file sending a revision token with every write.
UploadFile_sha_always(i, probe, put) ==
  /\ Holds(i, "upload")
  /\ fr.up_idx < Len(FileNames)
  /\ LET k == fr.up_idx + 1
         name == FileNames[k]
         repo == RepoOfUrl(fr.repo_url)
         f == [LeftCreate(fr) EXCEPT
                 !.stages = Stage(fr, "upload"),
                 !.up_probed = Append(fr.up_probed, name),
                 !.up_put = IF probe = "raise" THEN fr.up_put
                            ELSE Append(fr.up_put, name),
                 !.up_status = IF probe = "raise" THEN "" ELSE put,
                 !.up_probe = probe,
                 !.up_sha = IF probe # "raise" THEN BlobSha(name) ELSE NoText,
                 !.fault = (fr.fault \/ probe = "raise" \/ put # "201")]
     IN  IF probe = "raise" \/ put = "raise"
         THEN /\ fr' = Raised(f, "upload", <<"ConnectionError">>)
              /\ pipes' = [pipes EXCEPT ![i].pc = "except"]
              /\ gh_files' = gh_files
         ELSE IF put = "422"
         THEN /\ fr' = Raised(f, "upload", <<"Failed to upload ", name>>)
              /\ pipes' = [pipes EXCEPT ![i].pc = "except"]
              /\ gh_files' = gh_files
         ELSE /\ gh_files' = gh_files \cup {<<repo, name>>}
              /\ fr' = [(IF k = Len(FileNames) THEN LeftUpload(f) ELSE f)
                           EXCEPT !.up_idx = k,
                                  !.commit_sha = <<"sha-", name>>]
              /\ pipes' = [pipes EXCEPT ![i].pc =
                             IF k = Len(FileNames) THEN "pages" ELSE "upload"]
  /\ UNCHANGED <<ai_vars, secret_key, started, processing_tasks, running,
                 gh_repos, gh_pages, http_vars>>

\* One iteration of the loop of upload_files: _upload_single_file probes the
\* file (GET), then writes it (PUT); a PUT answered neither 200 nor 201 raises
\* naming the file.  After the last file upload_files returns the last commit
\* id.
UploadFile(i, probe, put) ==
  /\ Holds(i, "upload")
  /\ fr.up_idx < Len(FileNames)
  /\ LET k == fr.up_idx + 1
         name == FileNames[k]
         repo == RepoOfUrl(fr.repo_url)
         f == [LeftCreate(fr) EXCEPT
                 !.stages = Stage(fr, "upload"),
                 !.up_probed = Append(fr.up_probed, name),
                 !.up_put = IF probe = "raise" THEN fr.up_put
                            ELSE Append(fr.up_put, name),
                 !.up_status = IF probe = "raise" THEN "" ELSE put,
                 !.up_probe = probe,
                 !.up_sha = IF probe = "200" THEN BlobSha(name) ELSE NoText,
                 !.fault = (fr.fault \/ probe = "raise" \/ put # "201")]
     IN  IF probe = "raise" \/ put = "raise"
         THEN /\ fr' = Raised(f, "upload", <<"ConnectionError">>)
              /\ pipes' = [pipes EXCEPT ![i].pc = "except"]
              /\ gh_files' = gh_files
         ELSE IF put = "422"
         THEN /\ fr' = Raised(f, "upload", <<"Failed to upload ", name>>)
              /\ pipes' = [pipes EXCEPT ![i].pc = "except"]
              /\ gh_files' = gh_files
         ELSE /\ gh_files' = gh_files \cup {<<repo, name>>}
              /\ fr' = [(IF k = Len(FileNames) THEN LeftUpload(f) ELSE f)
                           EXCEPT !.up_idx = k,
                                  !.commit_sha = <<"sha-", name>>]
              /\ pipes' = [pipes EXCEPT ![i].pc =
                             IF k = Len(FileNames) THEN "pages" ELSE "upload"]
  /\ UNCHANGED <<ai_vars, secret_key, started, processing_tasks, running,
                 gh_repos, gh_pages, http_vars>>

PagesResponses == {"201", "409", "raise"}
PagesQueryResponses == {"200", "404", "raise"}

\* enable_pages raising on a failed activation without the query.
EnablePages_no_fallback(i, post, get, url) ==
  /\ Holds(i, "pages")
  /\ LET repo == RepoOfUrl(fr.repo_url)
         f == [fr EXCEPT !.stages = Stage(fr, "pages"),
                         !.pg_post = post,
                         !.pg_get = IF post = "409" THEN "" ELSE "",
                         !.fault = (fr.fault \/ post # "201" \/ ~url)]
         html_url == IF url THEN PagesUrl(repo) ELSE <<"null">>
     IN  IF post = "raise"
         THEN /\ fr' = Raised(f, "pages", <<"ConnectionError">>)
              /\ pipes' = [pipes EXCEPT ![i].pc = "except"]
              /\ gh_pages' = gh_pages
         ELSE IF post = "201"
         THEN /\ fr' = [f EXCEPT !.pages_url = html_url]
              /\ pipes' = [pipes EXCEPT ![i].pc = "result"]
              /\ gh_pages' = gh_pages \cup {repo}
         ELSE IF FALSE
         THEN /\ fr' = [f EXCEPT !.pages_url = html_url]
              /\ pipes' = [pipes EXCEPT ![i].pc = "result"]
              /\ gh_pages' = gh_pages
         ELSE /\ fr' = Raised(f, "pages", <<"GitHub Pages enablement failed">>)
              /\ pipes' = [pipes EXCEPT ![i].pc = "except"]
              /\ gh_pages' = gh_pages
  /\ UNCHANGED <<ai_vars, secret_key, started, processing_tasks, running,
                 gh_repos, gh_files, http_vars>>

\* GitHubService.enable_pages: POST .../pages; when that is answered neither
\* 200 nor 201, GET .../pages and return its html_url if answered 200, else
\* raise.  The html_url GitHub reports is a URL, or null for a site that has
\* none yet.
EnablePages(i, post, get, url) ==
  /\ Holds(i, "pages")
  /\ LET repo == RepoOfUrl(fr.repo_url)
         f == [fr EXCEPT !.stages = Stage(fr, "pages"),
                         !.pg_post = post,
                         !.pg_get = IF post = "409" THEN get ELSE "",
                         !.fault = (fr.fault \/ post # "201" \/ ~url)]
         html_url == IF url THEN PagesUrl(repo) ELSE <<"null">>
     IN  IF post = "raise" \/ (post = "409" /\ get = "raise")
         THEN /\ fr' = Raised(f, "pages", <<"ConnectionError">>)
              /\ pipes' = [pipes EXCEPT ![i].pc = "except"]
              /\ gh_pages' = gh_pages
         ELSE IF post = "201"
         THEN /\ fr' = [f EXCEPT !.pages_url = html_url]
              /\ pipes' = [pipes EXCEPT ![i].pc = "result"]
              /\ gh_pages' = gh_pages \cup {repo}
         ELSE IF get = "200"
         THEN /\ fr' = [f EXCEPT !.pages_url = html_url]
              /\ pipes' = [pipes EXCEPT ![i].pc = "result"]
              /\ gh_pages' = gh_pages
         ELSE /\ fr' = Raised(f, "pages", <<"GitHub Pages enablement failed">>)
              /\ pipes' = [pipes EXCEPT ![i].pc = "except"]
              /\ gh_pages' = gh_pages
  /\ UNCHANGED <<ai_vars, secret_key, started, processing_tasks, running,
                 gh_repos, gh_files, http_vars>>

\* The TaskResponse built at the end of _process_initial_task_background and
\* _process_revision_task_background; its validation raises on a field that
\* does not fit its pattern.
BuildResult(i) ==
  /\ Holds(i, "result")
  /\ LET f == [fr EXCEPT !.stages = Stage(fr, "result")]
     IN  IF UrlOk(fr.repo_url) /\ fr.commit_sha # NoText /\ UrlOk(fr.pages_url)
         THEN /\ fr' = [f EXCEPT !.result =
                          [email |-> Req(i).email, task |-> Req(i).task,
                           round |-> Req(i).round, nonce |-> Req(i).nonce,
                           repo_url |-> fr.repo_url,
                           commit_sha |-> fr.commit_sha,
                           pages_url |-> fr.pages_url]]
              /\ pipes' = [pipes EXCEPT ![i].pc = "complete"]
         ELSE /\ fr' = Raised(f, "result",
                         <<"1 validation error for TaskResponse">>)
              /\ pipes' = [pipes EXCEPT ![i].pc = "except"]
  /\ UNCHANGED <<ai_vars, secret_key, started, processing_tasks, running,
                 gh_vars, http_vars>>

\* Variant of CompletePayload: the Pages URL is sent as the repository URL too.
CompletePayload_pages_as_repo(result) ==
  [keys |-> {"email", "task", "round", "nonce", "repo_url", "commit_sha",
             "pages_url", "status"},
   email |-> result.email, task |-> result.task, round |-> result.round,
   nonce |-> result.nonce, repo_url |-> result.pages_url,
   commit_sha |-> result.commit_sha, pages_url |-> result.pages_url,
   status |-> "completed", error |-> NoText]

\* The payload _submit_complete_results builds from the result.
CompletePayload(result) ==
  [keys |-> {"email", "task", "round", "nonce", "repo_url", "commit_sha",
             "pages_url", "status"},
   email |-> result.email, task |-> result.task, round |-> result.round,
   nonce |-> result.nonce, repo_url |-> result.repo_url,
   commit_sha |-> result.commit_sha, pages_url |-> result.pages_url,
   status |-> "completed", error |-> NoText]

\* Variant of ErrorPayload: the message is left out of the payload.
ErrorPayload_no_message(req, msg) ==
  [keys |-> {"email", "task", "round", "nonce", "status", "error"},
   email |-> req.email, task |-> req.task, round |-> req.round,
   nonce |-> req.nonce, repo_url |-> NoText, commit_sha |-> NoText,
   pages_url |-> NoText, status |-> "failed", error |-> NoText]

\* The payload _submit_error_results builds from the request and str(e).
ErrorPayload(req, msg) ==
  [keys |-> {"email", "task", "round", "nonce", "status", "error"},
   email |-> req.email, task |-> req.task, round |-> req.round,
   nonce |-> req.nonce, repo_url |-> NoText, commit_sha |-> NoText,
   pages_url |-> NoText, status |-> "failed", error |-> msg]

\* Variant of MarkCompleted: the table keeps the completed record alone.
MarkCompleted_evicts_others(i) ==
  /\ Holds(i, "complete")
  /\ processing_tasks' =
       IF Pid(i) \in DOMAIN processing_tasks
       THEN [k \in {Pid(i)} |->
               [processing_tasks[k] EXCEPT !.status = "completed",
                                           !.has_result = TRUE,
                                           !.result = fr.result]]
       ELSE processing_tasks
  /\ fr' = [LeftRound(fr) EXCEPT !.stages = Stage(fr, "completed"),
                      !.payload = CompletePayload(fr.result),
                      !.post_attempt = 0, !.slept = <<>>, !.logged = ""]
  /\ pipes' = [pipes EXCEPT ![i].pc = "submit"]
  /\ UNCHANGED <<ai_vars, secret_key, started, running, gh_vars, http_vars>>

\* _process_task_background after the round's work returned: the record is
\* updated to completed with the result, and _submit_complete_results is
\* entered.
MarkCompleted(i) ==
  /\ Holds(i, "complete")
  /\ processing_tasks' =
       IF Pid(i) \in DOMAIN processing_tasks
       THEN [processing_tasks EXCEPT ![Pid(i)].status = "completed",
                                     ![Pid(i)].has_result = TRUE,
                                     ![Pid(i)].result = fr.result]
       ELSE processing_tasks
  /\ fr' = [LeftRound(fr) EXCEPT !.stages = Stage(fr, "completed"),
                      !.payload = CompletePayload(fr.result),
                      !.post_attempt = 0, !.slept = <<>>, !.logged = ""]
  /\ pipes' = [pipes EXCEPT ![i].pc = "submit"]
  /\ UNCHANGED <<ai_vars, secret_key, started, running, gh_vars, http_vars>>

\* Variant of HandleException: the record is marked failed and the coroutine
\* ends without calling _submit_error_results.
HandleException_no_notify(i) ==
  /\ Holds(i, "except")
  /\ processing_tasks' =
       IF Pid(i) \in DOMAIN processing_tasks
       THEN [processing_tasks EXCEPT ![Pid(i)].status = "failed",
                                     ![Pid(i)].has_error = TRUE,
                                     ![Pid(i)].error = fr.err]
       ELSE processing_tasks
  /\ fr' = [LeftRound(fr) EXCEPT !.stages = Stage(fr, "failed"),
                      !.payload = ErrorPayload(Req(i), fr.err),
                      !.post_attempt = 0, !.slept = <<>>, !.logged = ""]
  /\ pipes' = [pipes EXCEPT ![i].pc = "done"]
  /\ UNCHANGED <<ai_vars, secret_key, started, running, gh_vars, http_vars>>

\* Variant of HandleException: the except block logs the exception and the
\* coroutine ends, the record left as it was and no notice sent.
HandleException_log_only(i) ==
  /\ Holds(i, "except")
  /\ processing_tasks' = processing_tasks
  /\ fr' = [LeftRound(fr) EXCEPT !.post_attempt = 0, !.slept = <<>>,
                                 !.logged = "error"]
  /\ pipes' = [pipes EXCEPT ![i].pc = "done"]
  /\ UNCHANGED <<ai_vars, secret_key, started, running, gh_vars, http_vars>>

\* Variant of HandleException: the except block deletes the repository the
\* round had created before it marks the record failed.
HandleException_rollback(i) ==
  /\ Holds(i, "except")
  /\ processing_tasks' =
       IF Pid(i) \in DOMAIN processing_tasks
       THEN [processing_tasks EXCEPT ![Pid(i)].status = "failed",
                                     ![Pid(i)].has_error = TRUE,
                                     ![Pid(i)].error = fr.err]
       ELSE processing_tasks
  /\ fr' = [LeftRound(fr) EXCEPT !.stages = Stage(fr, "failed"),
                      !.payload = ErrorPayload(Req(i), fr.err),
                      !.post_attempt = 0, !.slept = <<>>, !.logged = ""]
  /\ pipes' = [pipes EXCEPT ![i].pc = "submit_error"]
  /\ gh_repos' = gh_repos \ {SubSeq(fr.repo_url, 5, Len(fr.repo_url))}
  /\ gh_files' = {p \in gh_files : p[1] # RepoOfUrl(fr.repo_url)}
  /\ gh_pages' = gh_pages \ {RepoOfUrl(fr.repo_url)}
  /\ UNCHANGED <<ai_vars, secret_key, started, running, http_vars>>

\* The except block of _process_task_background: the record is updated to
\* failed with str(e), and _submit_error_results is entered.
HandleException(i) ==
  /\ Holds(i, "except")
  /\ processing_tasks' =
       IF Pid(i) \in DOMAIN processing_tasks
       THEN [processing_tasks EXCEPT ![Pid(i)].status = "failed",
                                     ![Pid(i)].has_error = TRUE,
                                     ![Pid(i)].error = fr.err]
       ELSE processing_tasks
  /\ fr' = [LeftRound(fr) EXCEPT !.stages = Stage(fr, "failed"),
                      !.payload = ErrorPayload(Req(i), fr.err),
                      !.post_attempt = 0, !.slept = <<>>, !.logged = ""]
  /\ pipes' = [pipes EXCEPT ![i].pc = "submit_error"]
  /\ UNCHANGED <<ai_vars, secret_key, started, running, gh_vars, http_vars>>

\* Variant of wait_time: a delay that grows linearly.
wait_time_linear(attempt) == 2 * attempt

\* 2 ** attempt
wait_time(attempt) == 2 ^ attempt

\* What the notifier logs about the outcome o of an attempt made in the
\* submit method pc, retry telling whether another attempt follows.  A
\* response is tested with `if response and ...` / `elif response:`, and a
\* requests.Response of status 400 or more is falsy, so nothing is logged for
\* it.  An exception outside the requests hierarchy is logged only by the
\* try/except around _submit_error_results.
submit_log(pc, o, retry) ==
  CASE o = "200" -> "info"
    [] o = "500" -> ""
    [] o = "NetworkError" -> IF retry THEN "warning" ELSE "error"
    [] o = "RequestException" -> "error"
    [] OTHER -> IF pc = "submit_error" THEN "error" ELSE ""

\* Variant of PostAttempt: the submit method lets the error of the last
\* failed attempt through to its caller.
PostAttempt_raises(i, o) ==
  /\ i \in 1..Len(pipes)
  /\ running = i
  /\ pipes[i].pc \in {"submit", "submit_error"}
  /\ fr.post_attempt < max_retries
  /\ LET attempt == fr.post_attempt
         retry == o = "NetworkError" /\ attempt < max_retries - 1
         f == [fr EXCEPT !.stages = Stage(fr, pipes[i].pc),
                         !.posts = Append(fr.posts, fr.payload),
                         !.outcome = o,
                         !.fault = (fr.fault \/ o # "200"),
                         !.logged = submit_log(pipes[i].pc, o, retry)]
     IN  IF retry
         THEN /\ fr' = [f EXCEPT !.slept = Append(fr.slept, wait_time(attempt)),
                                 !.post_attempt = attempt + 1]
              /\ pipes' = pipes
         ELSE IF o \in {"OSError", "NetworkError"} /\ pipes[i].pc = "submit"
         THEN /\ fr' = Raised(f, "notify", <<o>>)
              /\ pipes' = [pipes EXCEPT ![i].pc = "except"]
         ELSE /\ fr' = f
              /\ pipes' = [pipes EXCEPT ![i].pc = "done"]
  /\ UNCHANGED <<ai_vars, secret_key, started, processing_tasks, running,
                 gh_vars, http_vars>>

\* Variant of PostAttempt: the except block calls _submit_error_results
\* without a try of its own, so that an exception outside the requests
\* hierarchy ends the task.
PostAttempt_unguarded(i, o) ==
  /\ i \in 1..Len(pipes)
  /\ running = i
  /\ pipes[i].pc \in {"submit", "submit_error"}
  /\ fr.post_attempt < max_retries
  /\ LET attempt == fr.post_attempt
         retry == o = "NetworkError" /\ attempt < max_retries - 1
         f == [fr EXCEPT !.stages = Stage(fr, pipes[i].pc),
                         !.posts = Append(fr.posts, fr.payload),
                         !.outcome = o,
                         !.fault = (fr.fault \/ o # "200"),
                         !.logged = submit_log(pipes[i].pc, o, retry)]
     IN  IF retry
         THEN /\ fr' = [f EXCEPT !.slept = Append(fr.slept, wait_time(attempt)),
                                 !.post_attempt = attempt + 1]
              /\ pipes' = pipes
              /\ running' = running
         ELSE IF o = "OSError" /\ pipes[i].pc = "submit"
         THEN /\ fr' = Raised(f, "notify", <<"OSError">>)
              /\ pipes' = [pipes EXCEPT ![i].pc = "except"]
              /\ running' = running
         ELSE IF o = "OSError"
         THEN /\ fr' = InitFrame
              /\ pipes' = [pipes EXCEPT ![i].pc = "unhandled"]
              /\ running' = 0
         ELSE /\ fr' = f
              /\ pipes' = [pipes EXCEPT ![i].pc = "done"]
              /\ running' = running
  /\ UNCHANGED <<ai_vars, secret_key, started, processing_tasks, gh_vars,
                 http_vars>>

\* Variant of PostAttempt: every request error is retried, not only the
\* connection and timeout errors.
PostAttempt_retries_all(i, o) ==
  /\ i \in 1..Len(pipes)
  /\ running = i
  /\ pipes[i].pc \in {"submit", "submit_error"}
  /\ fr.post_attempt < max_retries
  /\ LET attempt == fr.post_attempt
         retry == /\ o \in {"NetworkError", "RequestException"}
                  /\ attempt < max_retries - 1
         f == [fr EXCEPT !.stages = Stage(fr, pipes[i].pc),
                         !.posts = Append(fr.posts, fr.payload),
                         !.outcome = o,
                         !.fault = (fr.fault \/ o # "200"),
                         !.logged = submit_log(pipes[i].pc, o, retry)]
     IN  IF retry
         THEN /\ fr' = [f EXCEPT !.slept = Append(fr.slept, wait_time(attempt)),
                                 !.post_attempt = attempt + 1]
              /\ pipes' = pipes
         ELSE IF o = "OSError" /\ pipes[i].pc = "submit"
         THEN /\ fr' = Raised(f, "notify", <<"OSError">>)
              /\ pipes' = [pipes EXCEPT ![i].pc = "except"]
         ELSE /\ fr' = f
              /\ pipes' = [pipes EXCEPT ![i].pc = "done"]
  /\ UNCHANGED <<ai_vars, secret_key, started, processing_tasks, running,
                 gh_vars, http_vars>>

\* One iteration of the loop of _post_with_retry, inside
\* _submit_complete_results (pc "submit") or _submit_error_results (pc
\* "submit_error").  A response of any status is returned and the submit
\* method ends.  A connection or timeout error sleeps wait_time(attempt) and
\* loops when attempts remain, and is raised otherwise; the submit method
\* catches it, as it catches any other RequestException.  Any other exception
\* leaves the submit method: out of _submit_complete_results it reaches the
\* except block of _process_task_background, out of _submit_error_results it
\* is caught and logged there.
PostAttempt(i, o) ==
  /\ i \in 1..Len(pipes)
  /\ running = i
  /\ pipes[i].pc \in {"submit", "submit_error"}
  /\ fr.post_attempt < max_retries
  /\ LET attempt == fr.post_attempt
         retry == o = "NetworkError" /\ attempt < max_retries - 1
         f == [fr EXCEPT !.stages = Stage(fr, pipes[i].pc),
                         !.posts = Append(fr.posts, fr.payload),
                         !.outcome = o,
                         !.fault = (fr.fault \/ o # "200"),
                         !.logged = submit_log(pipes[i].pc, o, retry)]
     IN  IF retry
         THEN /\ fr' = [f EXCEPT !.slept = Append(fr.slept, wait_time(attempt)),
                                 !.post_attempt = attempt + 1]
              /\ pipes' = pipes
         ELSE IF o = "OSError" /\ pipes[i].pc = "submit"
         THEN /\ fr' = Raised(f, "notify", <<"OSError">>)
              /\ pipes' = [pipes EXCEPT ![i].pc = "except"]
         ELSE /\ fr' = f
              /\ pipes' = [pipes EXCEPT ![i].pc = "done"]
  /\ UNCHANGED <<ai_vars, secret_key, started, processing_tasks, running,
                 gh_vars, http_vars>>

\* The coroutine returns: the task is finished and its locals are gone.
Return(i) ==
  /\ Holds(i, "done")
  /\ running' = 0
  /\ fr' = InitFrame
  /\ pipes' = [pipes EXCEPT ![i].pc = "finished"]
  /\ UNCHANGED <<ai_vars, secret_key, started, processing_tasks, gh_vars,
                 http_vars>>

\* ---------------------------------------------------------- specifications

Next ==
  \/ \E req \in Requests : ProcessTask(req)
  \/ \E i \in DOMAIN pipes : Start(i)
  \/ \E i \in DOMAIN pipes : Generate(i)
  \/ \E i \in DOMAIN pipes, o \in BackendOutputs : GenReturn(i, o)
  \/ \E i \in DOMAIN pipes, ts \in Timestamps, rnd \in RandomSuffixes,
        resp \in CreateResponses : CreateAttempt(i, ts, rnd, resp)
  \/ \E i \in DOMAIN pipes, probe \in ProbeResponses, put \in PutResponses :
        UploadFile(i, probe, put)
  \/ \E i \in DOMAIN pipes, post \in PagesResponses,
        get \in PagesQueryResponses, url \in BOOLEAN :
        EnablePages(i, post, get, url)
  \/ \E i \in DOMAIN pipes : BuildResult(i)
  \/ \E i \in DOMAIN pipes : MarkCompleted(i)
  \/ \E i \in DOMAIN pipes : HandleException(i)
  \/ \E i \in DOMAIN pipes, o \in PostOutcomes : PostAttempt(i, o)
  \/ \E i \in DOMAIN pipes : Return(i)

Spec == Init /\ [][Next]_vars

\* The event loop runs every task that is ready: a pipeline that can take a
\* step eventually takes one.  (The backend reply, GenReturn, is covered: each
\* outbound call returns or raises.)
PipelineStep ==
  \E i \in DOMAIN pipes :
    \/ Start(i) \/ Generate(i)
    \/ \E o \in BackendOutputs : GenReturn(i, o)
    \/ \E ts \in Timestamps, rnd \in RandomSuffixes, resp \in CreateResponses :
          CreateAttempt(i, ts, rnd, resp)
    \/ \E probe \in ProbeResponses, put \in PutResponses :
          UploadFile(i, probe, put)
    \/ \E post \in PagesResponses, get \in PagesQueryResponses,
          url \in BOOLEAN : EnablePages(i, post, get, url)
    \/ BuildResult(i) \/ MarkCompleted(i) \/ HandleException(i)
    \/ \E o \in PostOutcomes : PostAttempt(i, o)
    \/ Return(i)

FairSpec == Spec /\ WF_vars(PipelineStep)

\* A process whose Config may carry the attribute _initialize_agents reads:
\* the AIService is constructed as AIService.__init__ does it, for each
\* Config, token and outcome of the Agent constructions, and every call of
\* generate_code draws them again (they are not part of the state, so what
\* holds for every draw holds for a fixed configuration).
InitAgents ==
  /\ PYDANTIC_AI_AVAILABLE \in BOOLEAN
  /\ \E fields \in ConfigVariants, token \in BOOLEAN, ctor \in AgentOutcomes :
       LET r == IF PYDANTIC_AI_AVAILABLE
                THEN initialize_agents_in(fields, "None", "None", token, ctor)
                ELSE [generator |-> "None", reviser |-> "None",
                      raised |-> FALSE]
       IN  /\ code_generator = r.generator
           /\ code_reviser = r.reviser
           /\ started = ~r.raised
  /\ InitRest

NextAgents ==
  \/ \E req \in Requests : ProcessTask(req)
  \/ \E i \in DOMAIN pipes : Start(i)
  \/ \E i \in DOMAIN pipes, fields \in ConfigVariants, token \in BOOLEAN,
        ctor \in AgentOutcomes : GenerateWith(i, fields, token, ctor)
  \/ \E i \in DOMAIN pipes, o \in BackendOutputs : GenReturn(i, o)
  \/ \E i \in DOMAIN pipes, ts \in Timestamps, rnd \in RandomSuffixes,
        resp \in CreateResponses : CreateAttempt(i, ts, rnd, resp)
  \/ \E i \in DOMAIN pipes, probe \in ProbeResponses, put \in PutResponses :
        UploadFile(i, probe, put)
  \/ \E i \in DOMAIN pipes, post \in PagesResponses,
        get \in PagesQueryResponses, url \in BOOLEAN :
        EnablePages(i, post, get, url)
  \/ \E i \in DOMAIN pipes : BuildResult(i)
  \/ \E i \in DOMAIN pipes : MarkCompleted(i)
  \/ \E i \in DOMAIN pipes : HandleException(i)
  \/ \E i \in DOMAIN pipes, o \in PostOutcomes : PostAttempt(i, o)
  \/ \E i \in DOMAIN pipes : Return(i)

SpecAgents == InitAgents /\ [][NextAgents]_vars

\* The process as built from the sources: the round's work after generation is
\* never reached, so the next-state relation is that of the handler, the
\* generation step, the except block and the notifier.
NextBuilt ==
  \/ \E req \in Requests : ProcessTaskBuilt(req)
  \/ \E i \in DOMAIN pipes : Start(i)
  \/ \E i \in DOMAIN pipes : Generate(i)
  \/ \E i \in DOMAIN pipes : HandleException(i)
  \/ \E i \in DOMAIN pipes, o \in PostOutcomes : PostAttempt(i, o)
  \/ \E i \in DOMAIN pipes : Return(i)

SpecBuilt == InitBuilt /\ [][NextBuilt]_vars

\* The process as built, with the random part of the tracking id drawn anew
\* for every request.
NextIds ==
  \/ \E req \in Requests, hex8 \in Uuid8 :
        HandleRequestWith(req, MaxRequestsBuilt, hex8)
  \/ \E i \in DOMAIN pipes : Start(i)
  \/ \E i \in DOMAIN pipes : Generate(i)
  \/ \E i \in DOMAIN pipes : HandleException(i)
  \/ \E i \in DOMAIN pipes, o \in PostOutcomes : PostAttempt(i, o)
  \/ \E i \in DOMAIN pipes : Return(i)

SpecIds == InitBuilt /\ [][NextIds]_vars

\* GitHubService.create_repository called on its own: a pipeline that holds
\* the loop and is about to call it, for each request shape, with retry
\* suffixes drawn from the wider sets.
InitRepo ==
  /\ PYDANTIC_AI_AVAILABLE = TRUE
  /\ code_generator = "Agent"
  /\ code_reviser = "Agent"
  /\ started = TRUE
  /\ secret_key \in ConfiguredSecrets
  /\ \E req \in Requests :
       /\ validate_credentials(req.secret)
       /\ pipes = <<[pid |-> ProcessingId(req, 1), req |-> req,
                     pc |-> "create", prompt |-> NoPrompt]>>
       /\ processing_tasks =
            [k \in {ProcessingId(req, 1)} |->
               [NewRecord EXCEPT !.status = "generating_code"]]
       /\ http_log = <<[req |-> req,
                        resp |-> Acceptance(req, ProcessingId(req, 1))]>>
  /\ running = 1
  /\ fr \in {[InitFrame EXCEPT !.stages = <<"generating_code", "generate">>,
                              !.files = fs] : fs \in {FullFiles, PartialFiles}}
  /\ gh_repos = {}
  /\ gh_files = {}
  /\ gh_pages = {}

NextRepo ==
  \E ts \in WideTimestamps, rnd \in WideRandomSuffixes,
     resp \in WideCreateResponses : CreateAttempt(1, ts, rnd, resp)

SpecRepo == InitRepo /\ [][NextRepo]_vars

\* Two requests for one (task, nonce), accepted close together: round 1 and
\* then either round 1 again or round 2.  Both pipelines have passed their
\* prompt to the backend and wait for its reply; the replies come in either
\* order.
PairFirst ==
  CHOOSE req \in Requests : req.round = 1 /\ req.secret = <<"s3cr3t-key">>

PairSecond == {PairFirst, [PairFirst EXCEPT !.round = 2]}

InitPair ==
  /\ PYDANTIC_AI_AVAILABLE = TRUE
  /\ code_generator = "Agent"
  /\ code_reviser = "Agent"
  /\ started = TRUE
  /\ secret_key = <<"s3cr3t-key">>
  /\ \E snd \in PairSecond :
       LET reqs == <<PairFirst, snd>>
           pid(n) == ProcessingId(reqs[n], n)
       IN  /\ pipes = [n \in 1..2 |->
                        [pid |-> pid(n), req |-> reqs[n], pc |-> "awaiting",
                         prompt |-> user_prompt(reqs[n], existing_files)]]
           /\ processing_tasks =
                [k \in {pid(1), pid(2)} |->
                   [NewRecord EXCEPT !.status = "generating_code"]]
           /\ http_log = [n \in 1..2 |->
                           [req |-> reqs[n],
                            resp |-> Acceptance(reqs[n], pid(n))]]
  /\ running = 0
  /\ fr = InitFrame
  /\ gh_repos = {}
  /\ gh_files = {}
  /\ gh_pages = {}

\* The answers drawn for the pair: the backend returns all four fields or
\* raises, GitHub answers with success or with its failure status, the
\* evaluation URL answers 200.
NextPair ==
  \/ \E i \in DOMAIN pipes, o \in BackendOutputs :
        o.strict \in {<<>>, FullFiles} /\ GenReturn(i, o)
  \/ \E i \in DOMAIN pipes, ts \in Timestamps, rnd \in RandomSuffixes,
        resp \in {Created, NameExists} : CreateAttempt(i, ts, rnd, resp)
  \/ \E i \in DOMAIN pipes, put \in {"201", "422"} : UploadFile(i, "404", put)
  \/ \E i \in DOMAIN pipes, post \in {"201", "409"}, get \in {"200", "404"} :
        EnablePages(i, post, get, TRUE)
  \/ \E i \in DOMAIN pipes : BuildResult(i)
  \/ \E i \in DOMAIN pipes : MarkCompleted(i)
  \/ \E i \in DOMAIN pipes : HandleException(i)
  \/ \E i \in DOMAIN pipes : PostAttempt(i, "200")
  \/ \E i \in DOMAIN pipes : Return(i)

SpecPair == InitPair /\ [][NextPair]_vars

\* The identities and texts generate_code is called with on its own:
\* "23f1002487@ds.study.iitm.ac.in", "abc@example.com", "", "a1", "x1234567y",
\* "9", "a12b345", three more identities of the pattern of TaskRequest.email
\* and two that miss it by the year and by a digit; and the texts "${seed}",
\* "", "ok", "a${seed}b${seed}", "${se${seed}ed}", "${seed", "$${seed}}".
SeedIdentities ==
  { StudentEmail,
    <<"2", "3", "f", "0", "0", "0", "0", "0", "0", "0">> \o EmailDomain,
    <<"2", "3", "f", "9", "9", "9", "9", "9", "9", "9">> \o EmailDomain,
    <<"2", "3", "f", "2", "3", "1", "0", "0", "2", "1">> \o EmailDomain,
    <<"2", "4", "f", "1", "0", "0", "2", "4", "8", "7">> \o EmailDomain,
    <<"2", "3", "1", "1", "0", "0", "2", "4", "8", "7">> \o EmailDomain,
    <<"a", "b", "c", "@", "e", "x", "a", "m", "p", "l", "e", ".", "c", "o", "m">>,
    <<>>, <<"a", "1">>, <<"x", "1", "2", "3", "4", "5", "6", "7", "y">>,
    <<"9">>, <<"a", "1", "2", "b", "3", "4", "5">> }

SeedTexts ==
  { Placeholder, <<>>, <<"o", "k">>,
    <<"a">> \o Placeholder \o <<"b">> \o Placeholder,
    <<"$", "{", "s", "e">> \o Placeholder \o <<"e", "d", "}">>,
    <<"$", "{", "s", "e", "e", "d">>,
    <<"$">> \o Placeholder \o <<"}">> }

\* AIService.generate_code called on its own, with the agents set: a pipeline
\* that holds the loop and is about to call it, in either mode, for each
\* identity and each brief; the checks are the brief again and the bare
\* placeholder.
InitSeed ==
  /\ PYDANTIC_AI_AVAILABLE = TRUE
  /\ code_generator = "Agent"
  /\ code_reviser = "Agent"
  /\ started = TRUE
  /\ secret_key \in ConfiguredSecrets
  /\ \E r \in Requests, e \in SeedIdentities, t \in SeedTexts :
       LET req == [r EXCEPT !.email = e, !.brief = t,
                            !.checks = <<t, Placeholder>>]
       IN  /\ validate_credentials(req.secret)
           /\ pipes = <<[pid |-> ProcessingId(req, 1), req |-> req,
                         pc |-> "generate", prompt |-> NoPrompt]>>
           /\ processing_tasks =
                [k \in {ProcessingId(req, 1)} |->
                   [NewRecord EXCEPT !.status = "generating_code"]]
           /\ http_log = <<[req |-> req,
                            resp |-> Acceptance(req, ProcessingId(req, 1))]>>
  /\ running = 1
  /\ fr = [InitFrame EXCEPT !.stages = <<"generating_code">>]
  /\ gh_repos = {}
  /\ gh_files = {}
  /\ gh_pages = {}

NextSeed == Generate(1)

SpecSeed == InitSeed /\ [][NextSeed]_vars

\* The parsing of the backend's result on its own: a pipeline that has passed
\* its prompt to the backend and waits for the result, for each request shape
\* and each output of the wider set.
InitParse ==
  /\ PYDANTIC_AI_AVAILABLE = TRUE
  /\ code_generator = "Agent"
  /\ code_reviser = "Agent"
  /\ started = TRUE
  /\ secret_key \in ConfiguredSecrets
  /\ \E req \in Requests :
       /\ validate_credentials(req.secret)
       /\ pipes = <<[pid |-> ProcessingId(req, 1), req |-> req,
                     pc |-> "awaiting",
                     prompt |-> user_prompt(req, existing_files)]>>
       /\ processing_tasks =
            [k \in {ProcessingId(req, 1)} |->
               [NewRecord EXCEPT !.status = "generating_code"]]
       /\ http_log = <<[req |-> req,
                        resp |-> Acceptance(req, ProcessingId(req, 1))]>>
  /\ running = 0
  /\ fr = InitFrame
  /\ gh_repos = {}
  /\ gh_files = {}
  /\ gh_pages = {}

NextParse == \E o \in WideBackendOutputs : GenReturn(1, o)

SpecParse == InitParse /\ [][NextParse]_vars

\* ------------------------------------------------- validation of the schema

\* The request bodies sent to POST /process_task before FastAPI has validated
\* them against TaskRequest.  The fields the schema reads character by
\* character (email, secret, evaluation_url) are sequences of characters.
\* "s3cr3t-key"
SchemaSecret ==
  <<"s", "3", "c", "r", "3", "t", "-", "k", "e", "y">>

\* "wrong-secret"
WrongSecret ==
  <<"w", "r", "o", "n", "g", "-", "s", "e", "c", "r", "e", "t">>

\* "s3cr3t-"
ShortSecret ==
  <<"s", "3", "c", "r", "3", "t", "-">>

\* "https://eval.example/notify"
EvaluationUrl ==
  <<"h", "t", "t", "p", "s", ":", "/", "/", "e", "v", "a", "l", ".", "e",
    "x", "a", "m", "p", "l", "e", "/", "n", "o", "t", "i", "f", "y">>

RawSecrets == {SchemaSecret, WrongSecret, ShortSecret}

\* "abc@example.com", "23f100248@ds.study.iitm.ac.in" (6 digits after 23f),
\* "24f1002487@ds.study.iitm.ac.in", "23f1002487@ds.study.iitm.ac.in.org"
BadEmails ==
  { <<"a", "b", "c", "@", "e", "x", "a", "m", "p", "l", "e", ".", "c", "o",
  "m">>,
    <<"2", "3", "f", "1", "0", "0", "2", "4", "8", "@", "d", "s", ".", "s",
      "t", "u", "d", "y", ".", "i", "i", "t", "m", ".", "a", "c", ".", "i",
      "n">>,
    <<"2", "4", "f", "1", "0", "0", "2", "4", "8", "7", "@", "d", "s", ".",
      "s", "t", "u", "d", "y", ".", "i", "i", "t", "m", ".", "a", "c", ".",
      "i", "n">>,
    <<"2", "3", "f", "1", "0", "0", "2", "4", "8", "7", "@", "d", "s", ".",
      "s", "t", "u", "d", "y", ".", "i", "i", "t", "m", ".", "a", "c", ".",
      "i", "n", ".", "o", "r", "g">> }

\* "not-a-url", "ftp://eval.example", "http://a", "https://.example",
\* "https://eval.example/a b"
BadUrls ==
  { <<"n", "o", "t", "-", "a", "-", "u", "r", "l">>,
    <<"f", "t", "p", ":", "/", "/", "e", "v", "a", "l", ".", "e", "x", "a",
      "m", "p", "l", "e">>,
    <<"h", "t", "t", "p", ":", "/", "/", "a">>,
    <<"h", "t", "t", "p", "s", ":", "/", "/", ".", "e", "x", "a", "m", "p",
      "l", "e">>,
    <<"h", "t", "t", "p", "s", ":", "/", "/", "e", "v", "a", "l", ".", "e",
      "x", "a", "m", "p", "l", "e", "/", "a", " ", "b">> }

\* "http://ab", "http://a b"
OtherUrls ==
  { <<"h", "t", "t", "p", ":", "/", "/", "a", "b">>,
    <<"h", "t", "t", "p", ":", "/", "/", "a", " ", "b">> }

RawValid ==
  [email |-> StudentEmail, secret |-> SchemaSecret, task |-> <<"captcha">>,
   round |-> 1, nonce |-> <<"n1">>, brief |-> <<"a">> \o Placeholder,
   checks |-> <<Placeholder \o <<"=">>, <<"o", "k">> >>,
   evaluation_url |-> EvaluationUrl]

\* The valid body, the bodies that differ from it in one field, and the body
\* of test_invalid_payload, each with every secret.
RawShapes ==
  {RawValid}
  \cup {[RawValid EXCEPT !.email = e] : e \in BadEmails}
  \cup {[RawValid EXCEPT !.evaluation_url = u] : u \in BadUrls \cup OtherUrls}
  \cup {[RawValid EXCEPT !.task = <<>>], [RawValid EXCEPT !.nonce = <<>>],
         [RawValid EXCEPT !.brief = <<>>], [RawValid EXCEPT !.round = 0],
         [RawValid EXCEPT !.checks = <<>>],
         [RawValid EXCEPT !.round = 2]}
  \cup {[RawValid EXCEPT !.email = <<"i", "n", "v", "a", "l", "i", "d", "-", "e", "m", "a", "i", "l">>,
                         !.task = <<>>, !.round = 0, !.checks = <<>>,
                         !.evaluation_url = <<"n", "o", "t", "-", "a", "-", "u", "r", "l">>]}

RawRequests == {[r EXCEPT !.secret = x] : r \in RawShapes, x \in RawSecrets}

\* \s of the patterns.
Whitespace == {" ", "\t", "\n", "\r", "\f"}

\* pattern=r'^23f\d{7}@ds\.study\.iitm\.ac\.in$'
email_pattern(e) ==
  /\ Len(e) = 3 + 7 + Len(EmailDomain)
  /\ SubSeq(e, 1, 3) = <<"2", "3", "f">>
  /\ \A k \in 4..10 : e[k] \in Digit
  /\ SubSeq(e, 11, Len(e)) = EmailDomain

\* pattern=r'^https?://[^\s/$.?#].[^\s]*$': after the scheme, one character
\* that is neither whitespace nor one of / $ . ? #, then any character but a
\* newline, then characters that are not whitespace.
url_pattern(u) ==
  LET https == <<"h", "t", "t", "p", "s", ":", "/", "/">>
      http == <<"h", "t", "t", "p", ":", "/", "/">>
      from == IF StartsWith(u, https) THEN Len(https) + 1
              ELSE IF StartsWith(u, http) THEN Len(http) + 1
              ELSE 0
      rest == SubSeq(u, from, Len(u))
  IN  /\ from > 0
      /\ Len(rest) >= 2
      /\ rest[1] \notin Whitespace \cup {"/", "$", ".", "?", "#"}
      /\ rest[2] # "\n"
      /\ \A k \in 3..Len(rest) : rest[k] \notin Whitespace

\* Variant of TaskRequest: the secret has no minimum length.
TaskRequest_any_secret(r) ==
  /\ email_pattern(r.email)
  /\ Len(r.task) >= 1
  /\ r.round >= 1
  /\ Len(r.nonce) >= 1
  /\ Len(r.brief) >= 1
  /\ Len(r.checks) >= 1
  /\ url_pattern(r.evaluation_url)

\* The constraints of TaskRequest.
TaskRequest(r) ==
  /\ email_pattern(r.email)
  /\ Len(r.secret) >= 8
  /\ Len(r.task) >= 1
  /\ r.round >= 1
  /\ Len(r.nonce) >= 1
  /\ Len(r.brief) >= 1
  /\ Len(r.checks) >= 1
  /\ url_pattern(r.evaluation_url)

\* FastAPI's answer to a body that does not validate.
ValidationError ==
  [NoResponse EXCEPT !.code = 422, !.detail = <<"validation error">>]

MaxSchemaRequests == 2

\* Variant of PostProcessTask: the secret is compared before the body is
\* validated.
PostProcessTask_secret_first(r) ==
  IF validate_credentials(r.secret) /\ ~TaskRequest(r)
  THEN /\ started
       /\ LoopFree
       /\ Len(http_log) < MaxSchemaRequests
       /\ http_log' = Append(http_log, [req |-> r, resp |-> ValidationError])
       /\ UNCHANGED <<ai_vars, secret_key, started, processing_tasks, pipes,
                      running, fr, gh_vars>>
  ELSE HandleRequest(r, MaxSchemaRequests)

\* POST /process_task: FastAPI validates the body against TaskRequest and
\* answers 422 without calling the endpoint function when it does not
\* validate; otherwise app.process_task runs.
PostProcessTask(r) ==
  IF ~TaskRequest(r)
  THEN /\ started
       /\ LoopFree
       /\ Len(http_log) < MaxSchemaRequests
       /\ http_log' = Append(http_log, [req |-> r, resp |-> ValidationError])
       /\ UNCHANGED <<ai_vars, secret_key, started, processing_tasks, pipes,
                      running, fr, gh_vars>>
  ELSE HandleRequest(r, MaxSchemaRequests)

\* The serving process as built, configured with the secret "s3cr3t-key";
\* the requests alone.
InitSchema ==
  /\ PYDANTIC_AI_AVAILABLE = TRUE
  /\ code_generator = "None"
  /\ code_reviser = "None"
  /\ started = TRUE
  /\ secret_key = SchemaSecret
  /\ processing_tasks = <<>>
  /\ pipes = <<>>
  /\ running = 0
  /\ fr = InitFrame
  /\ gh_repos = {}
  /\ gh_files = {}
  /\ gh_pages = {}
  /\ http_log = <<>>

NextSchema == \E r \in RawRequests : PostProcessTask(r)

SpecSchema == InitSchema /\ [][NextSchema]_vars

\* os.getenv("secret", "..."): the value of secret_key when the environment
\* sets no secret.
DefaultSecret == <<".", ".", ".">>

\* "........"
EightDots == <<".", ".", ".", ".", ".", ".", ".", ".">>

\* The bodies sent to a process without a configured secret: the valid body,
\* its second round, one with the identity 24f1002487@... and one without a
\* task, each with the secrets "s3cr3t-key", "wrong-secret", "s3cr3t-",
\* "..." and "........".
NoSecretRequests ==
  {[r EXCEPT !.secret = x] :
     r \in {RawValid, [RawValid EXCEPT !.round = 2],
            [RawValid EXCEPT !.email =
               <<"2", "4", "f", "1", "0", "0", "2", "4", "8", "7">>
                 \o EmailDomain],
            [RawValid EXCEPT !.task = <<>>]},
     x \in RawSecrets \cup {DefaultSecret, EightDots}}

\* The serving process started with no secret in its environment (and, as
\* it serves, without the library).
InitNoSecret ==
  /\ PYDANTIC_AI_AVAILABLE = FALSE
  /\ code_generator = "None"
  /\ code_reviser = "None"
  /\ started = TRUE
  /\ secret_key = DefaultSecret
  /\ processing_tasks = <<>>
  /\ pipes = <<>>
  /\ running = 0
  /\ fr = InitFrame
  /\ gh_repos = {}
  /\ gh_files = {}
  /\ gh_pages = {}
  /\ http_log = <<>>

NextNoSecret == \E r \in NoSecretRequests : PostProcessTask(r)

SpecNoSecret == InitNoSecret /\ [][NextNoSecret]_vars

\* ------------------------------------------------------------------ claims

\* The entry the handler has just added to the log, in the next state.
Handled == Len(http_log') = Len(http_log) + 1

\* C1: a request whose secret differs from the configured one is answered
\* 403, and handling it neither adds nor changes a record of the task table
\* nor creates a background task.
C1_RejectionHasNoSideEffect ==
  [][ (Handled /\ http_log'[Len(http_log')].req.secret # secret_key)
        => /\ http_log'[Len(http_log')].resp.code = 403
           /\ processing_tasks' = processing_tasks
           /\ pipes' = pipes
           /\ running' = running ]_vars

C1_Rejected ==
  \E k \in DOMAIN http_log :
    /\ http_log[k].req.secret # secret_key
    /\ http_log[k].resp.code = 403
    /\ http_log[k].resp.detail = <<"Forbidden: Invalid secret key">>

\* C2: every request that carries the configured secret is answered with an
\* acceptance payload that repeats the request's task, round and nonce and
\* carries the tracking id under which its record is stored and its pipeline
\* runs.
C2_AcceptanceEchoesRequest ==
  \A k \in DOMAIN http_log :
    LET req == http_log[k].req
        resp == http_log[k].resp
    IN  req.secret = secret_key =>
          /\ resp.code = 200
          /\ resp.status = "accepted"
          /\ resp.task = req.task
          /\ resp.round = req.round
          /\ resp.nonce = req.nonce
          /\ resp.processing_id \in DOMAIN processing_tasks
          /\ \E i \in DOMAIN pipes :
                pipes[i].pid = resp.processing_id /\ pipes[i].req = req

C2_AcceptedRoundTwo ==
  \E k \in DOMAIN http_log :
    /\ http_log[k].req.secret = secret_key
    /\ http_log[k].req.round = 2
    /\ http_log[k].resp.code = 200

\* C3: when the acceptance response for a request is returned, the record
\* exists under the returned tracking id with status processing, neither
\* result nor error, the pipeline for the request has been created as a task,
\* and no step of it has run: no pipeline holds the loop, and nothing has been
\* sent to GitHub.
C3_AcceptanceBeforePipeline ==
  [][ (Handled /\ http_log'[Len(http_log')].req.secret = secret_key)
        => LET req == http_log'[Len(http_log')].req
               resp == http_log'[Len(http_log')].resp
               pid == resp.processing_id
           IN  /\ resp.code = 200
               /\ pid \in DOMAIN processing_tasks'
               /\ processing_tasks'[pid].status = "processing"
               /\ ~processing_tasks'[pid].has_result
               /\ ~processing_tasks'[pid].has_error
               /\ pipes' = Append(pipes, [pid |-> pid, req |-> req,
                                          pc |-> "scheduled",
                                         prompt |-> NoPrompt])
               /\ running' = 0
               /\ fr' = InitFrame
               /\ gh_repos' = gh_repos
               /\ gh_files' = gh_files
               /\ gh_pages' = gh_pages ]_vars

C3_JustAccepted ==
  /\ http_log # <<>>
  /\ http_log[Len(http_log)].resp.code = 200
  /\ \E i \in DOMAIN pipes :
       /\ pipes[i].pid = http_log[Len(http_log)].resp.processing_id
       /\ pipes[i].pc = "scheduled"
       /\ processing_tasks[pipes[i].pid].status = "processing"

Statuses == {"processing", "generating_code", "completed", "failed"}

AllowedTransitions ==
  { <<"processing", "generating_code">>,
    <<"generating_code", "completed">>,
    <<"generating_code", "failed">> }

\* C4: a record's status is always one of processing, generating_code,
\* completed, failed; it changes only from processing to generating_code and
\* from generating_code to completed or failed; and generating_code is set
\* before the pipeline calls the generation backend or GitHub.
C4_StatusTransitions ==
  [][ /\ \A pid \in DOMAIN processing_tasks :
           /\ processing_tasks'[pid].status \in Statuses
           /\ processing_tasks'[pid].status # processing_tasks[pid].status
                => <<processing_tasks[pid].status,
                     processing_tasks'[pid].status>> \in AllowedTransitions
      /\ \A i \in DOMAIN pipes :
           processing_tasks[pipes[i].pid].status = "processing"
             => pipes'[i].pc \in {"scheduled", "generate"} ]_vars

\* The transitions the code makes: those of C4 and, when the submission of
\* the completed payload raises, completed to failed.
C4_TransitionsWithNotifierFault ==
  [][ \A pid \in DOMAIN processing_tasks :
        processing_tasks'[pid].status # processing_tasks[pid].status
          => <<processing_tasks[pid].status,
               processing_tasks'[pid].status>>
               \in AllowedTransitions \cup {<<"completed", "failed">>} ]_vars

\* C5: a record that is completed stays completed and a record that is failed
\* stays failed, whatever the notifier's POST does: a response of any status,
\* connection errors on every attempt, another request error, or any other
\* exception.
C5_TerminalStatusKept ==
  [][ \A pid \in DOMAIN processing_tasks :
        processing_tasks[pid].status \in {"completed", "failed"}
          => /\ processing_tasks'[pid].status = processing_tasks[pid].status
             /\ processing_tasks'[pid].has_error
                  = processing_tasks[pid].has_error ]_vars

\* The steps of a round's work that can raise, in the order they run.
RoundStages == <<"generate", "create", "upload", "pages", "result">>

StageIndex(s) == CHOOSE k \in DOMAIN RoundStages : RoundStages[k] = s

\* C6: when generation, repository creation, upload, Pages enablement or the
\* construction of the result raises, no later step of the round runs, the
\* record becomes failed with the exception's message and no result, and the
\* failure payload with that message, never the completed payload, is what is
\* posted to the evaluation URL.
C6_AbortOnException ==
  \A i \in DOMAIN pipes :
    (running = i /\ fr.raised_at \in {RoundStages[k] : k \in DOMAIN RoundStages})
      => /\ pipes[i].pc \in {"except", "submit_error", "done"}
         /\ fr.err # NoText
         /\ \A k \in DOMAIN fr.stages :
              fr.stages[k] \in {"generating_code", "failed", "submit_error"}
                \cup {RoundStages[j] : j \in 1..StageIndex(fr.raised_at)}
         /\ pipes[i].pc # "except"
              => /\ processing_tasks[Pid(i)].status = "failed"
                 /\ processing_tasks[Pid(i)].has_error
                 /\ processing_tasks[Pid(i)].error = fr.err
                 /\ ~processing_tasks[Pid(i)].has_result
                 /\ \A k \in DOMAIN fr.posts :
                      /\ fr.posts[k].status = "failed"
                      /\ fr.posts[k].error = fr.err
                      /\ fr.posts[k].nonce = Req(i).nonce
         /\ pipes[i].pc = "done" => fr.posts # <<>>

C6_FailedAtPages ==
  \E i \in DOMAIN pipes :
    /\ Holds(i, "done")
    /\ fr.raised_at = "pages"
    /\ processing_tasks[Pid(i)].status = "failed"
    /\ fr.posts # <<>>

\* generate_code has raised in pipeline i and nothing has handled it yet.
GenerationFailed(i) ==
  /\ i \in DOMAIN pipes
  /\ Holds(i, "except")
  /\ fr.raised_at = "generate"

\* Pipeline i, whose generation failed, has ended: its request was accepted,
\* its record is failed, every payload it posted says failed with a message,
\* it posted at least one, and it never called create_repository.
FailureReported(i) ==
  /\ i \in DOMAIN pipes
  /\ Holds(i, "done")
  /\ fr.raised_at = "generate"
  /\ \E k \in DOMAIN http_log :
       /\ http_log[k].resp.code = 200
       /\ http_log[k].resp.processing_id = Pid(i)
  /\ processing_tasks[Pid(i)].status = "failed"
  /\ fr.posts # <<>>
  /\ \A k \in DOMAIN fr.posts :
       /\ fr.posts[k].status = "failed"
       /\ fr.posts[k].error # NoText
       /\ "error" \in fr.posts[k].keys
  /\ \A k \in DOMAIN fr.stages : fr.stages[k] # "create"

\* C7: when generation fails for an accepted request, the acceptance response
\* has been returned, the record eventually becomes failed, the notifier is
\* eventually called with status failed and a non-empty error, and the
\* pipeline never calls create_repository.
C7_GenerationFailureEndToEnd ==
  /\ \A i \in 1..MaxRequests : GenerationFailed(i) ~> FailureReported(i)
  /\ [](\A i \in DOMAIN pipes :
          (running = i /\ fr.raised_at = "generate")
            => \A k \in DOMAIN fr.stages : fr.stages[k] # "create")

C7_FailureReported == \E i \in DOMAIN pipes : FailureReported(i)

\* C8: in the process as built, a round-1 request with the configured secret
\* whose outbound calls are all answered with success ends with its record
\* completed and holding the result, and with the completed payload, its
\* repo_url, commit_sha and pages_url filled in, posted to the evaluation URL.
C8_RoundOneCompletes ==
  \A i \in DOMAIN pipes :
    (Holds(i, "done") /\ Req(i).round = 1 /\ ~fr.fault)
      => /\ processing_tasks[Pid(i)].status = "completed"
         /\ processing_tasks[Pid(i)].has_result
         /\ fr.posts # <<>>
         /\ fr.posts[Len(fr.posts)].status = "completed"
         /\ UrlOk(fr.posts[Len(fr.posts)].repo_url)
         /\ fr.posts[Len(fr.posts)].commit_sha # NoText
         /\ UrlOk(fr.posts[Len(fr.posts)].pages_url)

\* What the process as built does instead: no record is ever completed.
C8_NeverCompletedAsBuilt ==
  \A pid \in DOMAIN processing_tasks :
    processing_tasks[pid].status # "completed"

\* C9: create_repository makes at most 5 attempts; when it returns on the 5th
\* attempt, after collisions on attempts 1 to 4, it has posted 5 distinct
\* names and returns the URL of the 5th; after 5 collisions it raises its
\* terminal error, having made exactly 5 attempts.
C9_FiveDistinctNames ==
  Holds(1, "upload") \/ Holds(1, "except") \/ Holds(1, "create")
    => /\ fr.cr_attempt <= max_attempts
       /\ (fr.cr_status = "returned" /\ fr.cr_attempt = max_attempts)
            => /\ Cardinality(fr.cr_names) = max_attempts
               /\ fr.repo_url = HtmlUrl(fr.cr_last)
       /\ (fr.cr_status = "raised" /\ fr.cr_sleeps = max_attempts)
            => fr.cr_attempt = max_attempts

\* What create_repository does guarantee: the bound on the attempts, the URL
\* returned and the terminal error, with no more than 5 names posted.
C9_AttemptsBounded ==
  Holds(1, "upload") \/ Holds(1, "except") \/ Holds(1, "create")
    => /\ fr.cr_attempt <= max_attempts
       /\ Cardinality(fr.cr_names) <= fr.cr_attempt
       /\ fr.cr_status = "returned"
            => /\ fr.repo_url = HtmlUrl(fr.cr_last)
               /\ fr.cr_sleeps = fr.cr_attempt - 1
       /\ fr.cr_sleeps = max_attempts
            => /\ fr.cr_status = "raised"
               /\ fr.cr_attempt = max_attempts
               /\ Holds(1, "except")

\* The notifier's loop has ended after a connection or timeout error on every
\* one of its attempts.
FullFailingRun(i) ==
  /\ Holds(i, "done")
  /\ fr.post_attempt = max_retries - 1
  /\ fr.outcome = "NetworkError"

StatusAtSubmit(f) ==
  IF f.stages[Len(f.stages)] = "submit" THEN "completed" ELSE "failed"

\* C11: when the notifier's loop has ended on a connection or timeout error,
\* every attempt having failed with one, three POSTs have been made, each with the same payload, the delays
\* between them do not decrease, the failure is logged as an error, and the
\* pipeline goes on to its end with the record's status as it was: the error
\* does not reach the except block of the pipeline.
C11_ThreeAttemptsThenLoggedFailure ==
  \A i \in DOMAIN pipes :
    (running = i /\ fr.outcome = "NetworkError"
                 /\ pipes[i].pc \notin {"submit", "submit_error"})
      => /\ pipes[i].pc = "done"
         /\ fr.post_attempt + 1 = 3
         /\ Len(fr.slept) = 2
         /\ Len(fr.posts) >= 3
         /\ \A k \in (Len(fr.posts) - 2)..Len(fr.posts) :
              fr.posts[k] = fr.payload
         /\ \A k \in 1..(Len(fr.slept) - 1) : fr.slept[k] <= fr.slept[k + 1]
         /\ fr.logged = "error"
         /\ processing_tasks[Pid(i)].status = StatusAtSubmit(fr)

C11_CompletedButNotNotified ==
  \E i \in DOMAIN pipes :
    /\ FullFailingRun(i)
    /\ processing_tasks[Pid(i)].status = "completed"
    /\ fr.logged = "error"

\* The outcomes of an attempt that are not retried.
NotRetried == {"200", "500", "RequestException"}

\* C12: an attempt of the notifier that yields a response of any status, or a
\* request error other than a connection or timeout error, is the last: the
\* notifier's loop has ended, no further POST follows, and the pipeline goes
\* on to its end with the record's status as it was.
C12_RetryOnlyOnNetworkErrors ==
  /\ [](\A i \in DOMAIN pipes :
          (running = i /\ fr.outcome \in NotRetried)
            => /\ pipes[i].pc = "done"
               /\ Len(fr.slept) = fr.post_attempt
               /\ processing_tasks[Pid(i)].status = StatusAtSubmit(fr))
  /\ [][ (running # 0 /\ fr.outcome \in NotRetried)
            => fr'.posts = <<>> \/ fr'.posts = fr.posts ]_vars

C12_ErrorStatusNotRetried ==
  \E i \in DOMAIN pipes :
    /\ Holds(i, "done")
    /\ fr.outcome = "500"
    /\ fr.post_attempt = 1
    /\ processing_tasks[Pid(i)].status = "completed"

\* "abc@example.com"
ExampleEmail ==
  <<"a", "b", "c", "@", "e", "x", "a", "m", "p", "l", "e", ".", "c", "o", "m">>

DefaultSeed == <<"d", "e", "f", "a", "u", "l", "t">>

\* s is the first run of digits of email cut to 6 digits, or "default" when
\* email has no digit.
IsFirstRunSeed(s, email) ==
  IF \A k \in DOMAIN email : email[k] \notin Digit
  THEN s = DefaultSeed
  ELSE LET p == CHOOSE k \in DOMAIN email :
                  /\ email[k] \in Digit
                  /\ \A j \in 1..(k - 1) : email[j] \notin Digit
           q == CHOOSE k \in p..Len(email) :
                  /\ \A j \in p..k : email[j] \in Digit
                  /\ k = Len(email) \/ email[k + 1] \notin Digit
           n == IF q - p + 1 < 6 THEN q - p + 1 ELSE 6
       IN  s = SubSeq(email, p, p + n - 1)

\* Pipeline i has passed its prompt to the backend, and its brief was the bare
\* placeholder: the brief of the prompt is the seed.
SeedSent(i) ==
  /\ pipes[i].pc = "awaiting"
  /\ Req(i).brief = Placeholder

\* C13: the seed derived from "23f1002487@ds.study.iitm.ac.in" is "231002"
\* and the seed derived from "abc@example.com" is "default"; in general the
\* seed is the first run of digits of the identity cut to 6 digits, or
\* "default" when the identity has no digit.
C13_SeedAsClaimed ==
  \A i \in DOMAIN pipes :
    SeedSent(i)
      => /\ Req(i).email = StudentEmail
              => pipes[i].prompt.brief = <<"2", "3", "1", "0", "0", "2">>
         /\ Req(i).email = ExampleEmail
              => pipes[i].prompt.brief = DefaultSeed
         /\ IsFirstRunSeed(pipes[i].prompt.brief, Req(i).email)

\* C13, as the code has it: the first run of digits of
\* "23f1002487@ds.study.iitm.ac.in" is "23", and that is its seed; the seed of
\* "abc@example.com" is "default"; in general the seed is the first run of
\* digits of the identity cut to 6 digits, or "default" when the identity has
\* no digit.
C13_SeedDerivation ==
  \A i \in DOMAIN pipes :
    SeedSent(i)
      => /\ Req(i).email = StudentEmail
              => pipes[i].prompt.brief = <<"2", "3">>
         /\ Req(i).email = ExampleEmail
              => pipes[i].prompt.brief = DefaultSeed
         /\ IsFirstRunSeed(pipes[i].prompt.brief, Req(i).email)

C13_StudentSeedSent ==
  \E i \in DOMAIN pipes :
    /\ SeedSent(i)
    /\ Req(i).email = StudentEmail
    /\ pipes[i].prompt.brief = <<"2", "3">>

\* C14: in the prompt passed to the backend, in generation mode and in
\* revision mode alike, a text without the placeholder is as it came, the
\* brief and every check have the placeholder replaced by one and the same
\* seed, the seed of the request's identity, equal texts come out equal, and
\* processing the processed texts again changes nothing.
C14_SeedSubstitution ==
  \A i \in DOMAIN pipes :
    pipes[i].pc = "awaiting"
      => LET req == Req(i)
             pr == pipes[i].prompt
             texts == <<req.brief>> \o req.checks
             sent == <<pr.brief>> \o pr.checks
         IN  /\ pr.mode = IF req.round = 1 THEN "generate" ELSE "revise"
             /\ Len(pr.checks) = Len(req.checks)
             /\ \A k \in DOMAIN texts :
                  /\ ~Contains(texts[k], Placeholder) => sent[k] = texts[k]
                  /\ process_seed_placeholders(sent[k], req.email) = sent[k]
                  /\ \A j \in DOMAIN texts :
                       texts[j] = texts[k] => sent[j] = sent[k]
             /\ \E s \in {seed(req.email)} :
                  /\ IsFirstRunSeed(s, req.email)
                  /\ \A k \in DOMAIN texts :
                       sent[k] = Replace(texts[k], Placeholder, s)

C14_RevisionPromptSubstituted ==
  \E i \in DOMAIN pipes :
    /\ pipes[i].pc = "awaiting"
    /\ Req(i).round >= 2
    /\ Contains(Req(i).brief, Placeholder)
    /\ pipes[i].prompt.brief # Req(i).brief
    /\ pipes[i].prompt.checks[2] = <<"2", "3">>

\* C15: generate_code never returns an artifact set with an empty or missing
\* artifact, so that no pipeline ever holds, uploads or completes with a set
\* in which one of the four contents is empty: a backend result with an empty
\* or absent field fails the round.
C15_NoEmptyArtifact ==
  \A i \in DOMAIN pipes :
    running = i
      => /\ \A k \in DOMAIN fr.files : fr.files[k] # ""
         /\ (fr.output.kind = "text" /\ fr.output.strict = PartialFiles)
              => pipes[i].pc = "except"

\* The stages of the parsing in their order.
Ladder == <<"strict", "repair", "extract">>

\* C16: the stages of the parsing run in order and stop at the first success:
\* the repair is run only when the strict parse failed, the extraction only
\* when the repair failed too; what the first successful stage yields is what
\* is used; the extraction is taken only with a non-empty index_html, its
\* other fields empty where it found none; and when all three stages fail,
\* generate_code raises and returns no artifact set.
C16_LadderInOrder ==
  \A i \in DOMAIN pipes :
    (running = i /\ fr.output.kind = "text")
      => LET o == fr.output
             st == fr.parse_stages
             n == Len(st)
             returned == pipes[i].pc = "create"
         IN  /\ n \in 1..3
             /\ st = SubSeq(Ladder, 1, n)
             /\ n >= 2 => o.strict = <<>>
             /\ n = 3 => o.repair = <<>>
             /\ o.strict # <<>> => n = 1
             /\ (o.strict = <<>> /\ o.repair # <<>>) => n = 2
             /\ returned \/ (pipes[i].pc = "except" /\ fr.files = <<>>
                                /\ fr.err # NoText)
             /\ (n = 1 /\ returned) => fr.files = o.strict
             /\ (n = 2 /\ returned) => fr.files = o.repair
             /\ n = 3 => /\ returned <=> o.extract[1] # ""
                         /\ returned => fr.files = o.extract
             /\ (o.strict = <<>> /\ o.repair = <<>> /\ o.extract[1] = "")
                  => ~returned

C16_ExtractionAccepted ==
  \E i \in DOMAIN pipes :
    /\ running = i
    /\ fr.parse_stages = Ladder
    /\ fr.output.extract = IndexOnlyFiles
    /\ pipes[i].pc = "create"
    /\ fr.files = IndexOnlyFiles

C19_RevisionGetsPreviousFiles ==
  \A i \in DOMAIN pipes :
    (pipes[i].pc = "awaiting" /\ Req(i).round >= 2)
      => /\ pipes[i].prompt.mode = "revise"
         /\ pipes[i].prompt.brief
              = process_seed_placeholders(Req(i).brief, Req(i).email)
         /\ Len(pipes[i].prompt.existing_files) = Len(FileNames)

\* Pipeline i is at a GitHub call or at an attempt of the evaluation callback.
AtNetworkCall(i) ==
  /\ running = i
  /\ pipes[i].pc \in {"create", "upload", "pages", "submit", "submit_error"}

\* Pipeline i is in the delay before a retry of create_repository or of
\* _post_with_retry.
InRetryDelay(i) ==
  /\ running = i
  /\ \/ pipes[i].pc = "create" /\ fr.cr_sleeps > 0
     \/ pipes[i].pc \in {"submit", "submit_error"} /\ fr.slept # <<>>

\* A request that arrives now can be handled; a reply of the backend to
\* another pipeline than i can be taken.
HandlerCanRun ==
  ENABLED (\E req \in Requests : HandleRequest(req, Len(http_log) + 1))

OthersCanRun(i) ==
  \A j \in DOMAIN pipes \ {i} :
    pipes[j].pc = "awaiting"
      => ENABLED (\E o \in BackendOutputs : GenReturn(j, o))

\* C20: every GitHub call and every attempt of the callback is a suspension
\* point and a retry delay suspends the retrying pipeline alone: while a
\* pipeline is at such a call or in such a delay, the handler can take a
\* request and the other pipelines can go on.
C20_CallsAndDelaysSuspend ==
  \A i \in DOMAIN pipes :
    (AtNetworkCall(i) \/ InRetryDelay(i))
      => HandlerCanRun /\ OthersCanRun(i)

\* Pipelines i and j work for the same (task, nonce).
SameKey(i, j) ==
  Req(i).task = Req(j).task /\ Req(i).nonce = Req(j).nonce

\* Pipeline i has performed some but not all of create, upload and enable: its
\* repository is created and enable_pages has not returned.
MidPublisher(i) ==
  running = i /\ pipes[i].pc \in {"upload", "pages"}

\* C21: two pipelines accepted close together for the same (task, nonce) can
\* interleave their repository operations: while one of them has performed
\* some but not all of create, upload and enable, the other, whose backend
\* reply is due, can go on to its own repository operations.
C21_RepositoryOperationsInterleave ==
  \A i, j \in DOMAIN pipes :
    (i # j /\ SameKey(i, j) /\ MidPublisher(i) /\ pipes[j].pc = "awaiting")
      => ENABLED (\E o \in BackendOutputs : GenReturn(j, o))

\* C21, as the code has it: at most one pipeline is inside create, upload and
\* enable at a time; the other has not begun them or has left them.
C21_OnePublisherAtATime ==
  \A i, j \in DOMAIN pipes :
    (i # j /\ pipes[i].pc \in {"create", "upload", "pages"})
      => pipes[j].pc \in {"scheduled", "awaiting", "finished"}

\* C22: no two accepted requests ever receive the same tracking id, two
\* requests with the same task, nonce and round included, so that every record
\* of the table is written by one pipeline at most.
C22_TrackingIdsDistinct ==
  \A i, j \in DOMAIN pipes : i # j => Pid(i) # Pid(j)

\* The keys of the two JSON bodies of the evaluation callback.
CompletedKeys ==
  {"email", "task", "round", "nonce", "repo_url", "commit_sha", "pages_url",
   "status"}

FailedKeys == {"email", "task", "round", "nonce", "status", "error"}

\* Payload p carries the email, task, round and nonce of request req.
OfRequest(p, req) ==
  /\ p.email = req.email
  /\ p.task = req.task
  /\ p.round = req.round
  /\ p.nonce = req.nonce

\* C23: the body posted on success has the request's email, task, round and
\* nonce, the repo_url create_repository returned, the commit_sha upload_files
\* returned and the pages_url enable_pages returned in the same pipeline, and
\* status "completed"; the body posted on failure has the request's email,
\* task, round and nonce, status "failed" and the error string, and no
\* repo_url, commit_sha or pages_url.
C23_CallbackPayloads ==
  [][\A i \in DOMAIN pipes :
       (running = i /\ running' = i)
         => LET pc == pipes[i].pc
                pc2 == pipes'[i].pc
                p == fr'.payload
            IN  /\ (pc = "create" /\ pc2 = "upload")
                     => /\ fr'.repo_url = HtmlUrl(fr'.cr_last)
                        /\ fr'.cr_last \in gh_repos'
                /\ (pc = "upload" /\ pc2 = "pages")
                     => /\ fr'.commit_sha
                             = <<"sha-", FileNames[Len(FileNames)]>>
                        /\ fr'.repo_url = fr.repo_url
                /\ (pc = "pages" /\ pc2 = "result")
                     => /\ fr'.pages_url
                             \in {PagesUrl(RepoOfUrl(fr.repo_url)), <<"null">>}
                        /\ fr'.repo_url = fr.repo_url
                        /\ fr'.commit_sha = fr.commit_sha
                /\ (pc = "result" /\ pc2 = "complete")
                     => /\ OfRequest(fr'.result, Req(i))
                        /\ fr'.result.repo_url = fr.repo_url
                        /\ fr'.result.commit_sha = fr.commit_sha
                        /\ fr'.result.pages_url = fr.pages_url
                /\ (pc = "complete" /\ pc2 = "submit")
                     => /\ p.keys = CompletedKeys
                        /\ OfRequest(p, Req(i))
                        /\ p.repo_url = fr.result.repo_url
                        /\ p.commit_sha = fr.result.commit_sha
                        /\ p.pages_url = fr.result.pages_url
                        /\ p.status = "completed"
                /\ (pc = "except" /\ pc2 = "submit_error")
                     => /\ p.keys = FailedKeys
                        /\ OfRequest(p, Req(i))
                        /\ p.status = "failed"
                        /\ p.error = fr.err
                        /\ fr.err # NoText
                /\ Len(fr'.posts) > Len(fr.posts)
                     => /\ fr'.posts = Append(fr.posts, fr.payload)
                        /\ p = fr.payload
                        /\ p.status = IF pc = "submit" THEN "completed"
                                      ELSE "failed"
                        /\ p.keys = IF pc = "submit" THEN CompletedKeys
                                    ELSE FailedKeys ]_vars

C23_CompletedPayloadPosted ==
  \E i \in DOMAIN pipes :
    /\ running = i
    /\ fr.posts # <<>>
    /\ fr.posts[1].status = "completed"
    /\ fr.posts[1].repo_url = HtmlUrl(RepoName(Req(i)))
    /\ fr.posts[1].pages_url = PagesUrl(RepoOfUrl(fr.posts[1].repo_url))
    /\ fr.posts[1].commit_sha = <<"sha-", "README.md">>

\* The body of request r fails the schema in one of the ways listed.
FailsSchema(r) ==
  \/ ~email_pattern(r.email)
  \/ Len(r.secret) < 8
  \/ r.task = <<>>
  \/ r.brief = <<>>
  \/ r.nonce = <<>>
  \/ r.round < 1
  \/ r.checks = <<>>
  \/ ~url_pattern(r.evaluation_url)
  \/ ~StartsWith(r.evaluation_url, <<"h", "t", "t", "p">>)
  \/ r.email \in BadEmails
  \/ r.evaluation_url \in BadUrls

PipelineOrder ==
  <<"generating_code", "generate", "create", "upload", "pages", "result",
    "completed", "submit">>

\* Sequence a is the beginning of sequence b.
IsPrefix(a, b) == Len(a) <= Len(b) /\ a = SubSeq(b, 1, Len(a))

\* The steps of the pipeline that ran before the except block was entered.
BeforeExcept(st) ==
  IF \E k \in DOMAIN st : st[k] = "failed"
  THEN SubSeq(st, 1, (CHOOSE k \in DOMAIN st : st[k] = "failed") - 1)
  ELSE st

\* C25: the steps of a pipeline occur in one order: generation has returned
\* the files before create_repository is called, the repository is created
\* before a file is uploaded, all files are uploaded before enable_pages is
\* called, the record is marked completed, with the result, only after
\* enable_pages has returned, and the completion notifier is entered only
\* after the record is marked completed.
C25_StepsInOrder ==
  \A i \in DOMAIN pipes :
    running = i
      => LET pc == pipes[i].pc
             repo == RepoOfUrl(fr.repo_url)
             rec == processing_tasks[Pid(i)]
         IN  /\ IsPrefix(BeforeExcept(fr.stages), PipelineOrder)
             /\ pc = "create" => /\ Len(fr.files) = Len(FileNames)
                                 /\ fr.repo_url = NoText
                                 /\ fr.up_probed = <<>>
             /\ pc = "upload" => /\ SubSeq(repo, 3, Len(repo)) \in gh_repos
                                 /\ fr.pg_post = ""
             /\ pc = "pages"
                  => /\ \A k \in DOMAIN FileNames :
                          <<repo, FileNames[k]>> \in gh_files
                     /\ fr.commit_sha # NoText
                     /\ fr.pages_url = NoText
             /\ pc \in {"create", "upload", "pages", "result", "complete"}
                  => /\ rec.status = "generating_code"
                     /\ ~rec.has_result
                     /\ fr.posts = <<>>
             /\ pc = "complete" => fr.result.pages_url = fr.pages_url
             /\ pc = "submit"
                  => /\ rec.status = "completed"
                     /\ rec.has_result
                     /\ rec.result.pages_url \in {PagesUrl(RepoOfUrl(
                                                     rec.result.repo_url))}
             /\ (fr.posts # <<>> /\ fr.posts[1].status = "completed")
                  => rec.has_result

C25_RanToTheEnd ==
  \E i \in DOMAIN pipes :
    /\ Holds(i, "done")
    /\ fr.stages = PipelineOrder
    /\ processing_tasks[Pid(i)].status = "completed"
    /\ fr.posts # <<>>

\* The outcomes of a POST that are exceptions.
PostExceptions == {"NetworkError", "RequestException", "OSError"}

\* C26: a pipeline never ends with an unhandled exception and never passes an
\* error to the HTTP caller: whatever is raised after the acceptance, in the
\* submission of the failure payload included, is caught in the pipeline; it
\* leaves the loop only to wait for the backend or at its end, the responses
\* already returned stay as they are, and what was raised into the except
\* block shows in the record's failed status and in the failure payload.
C26_NoUnhandledException ==
  [][\A i \in DOMAIN pipes :
       running = i
         => /\ http_log' = http_log
            /\ pipes'[i].pc \in {"awaiting", "generate", "create", "upload",
                                  "pages", "result", "complete", "submit",
                                  "except", "submit_error", "done", "finished"}
            /\ running' # i
                 => /\ running' = 0
                    /\ pipes'[i].pc \in {"awaiting", "finished"}
            /\ pipes'[i].pc = "finished"
                 => /\ pipes[i].pc = "done"
                    /\ processing_tasks[Pid(i)].status
                         \in {"completed", "failed"}
                    /\ fr.raised_at # "none"
                         => /\ processing_tasks[Pid(i)].status = "failed"
                            /\ processing_tasks[Pid(i)].has_error
                            /\ processing_tasks[Pid(i)].error = fr.err
                            /\ fr.posts # <<>>
                            /\ fr.posts[Len(fr.posts)].status = "failed"
                            /\ fr.posts[Len(fr.posts)].error = fr.err ]_vars

C26_FailureNoticeRaised ==
  \E i \in DOMAIN pipes :
    /\ Holds(i, "done")
    /\ fr.raised_at = "upload"
    /\ fr.outcome = "OSError"
    /\ fr.payload.status = "failed"
    /\ processing_tasks[Pid(i)].status = "failed"
    /\ http_log[1].resp.code = 200

\* The answer is a name collision: status 422 with an error on field 'name'
\* whose message contains 'already exists'.
NameCollision(r) ==
  /\ r.status = "422"
  /\ \E k \in 1..Len(r.errors) :
       /\ r.errors[k].field = "name"
       /\ Contains(lower(r.errors[k].message), <<"already", "exists">>)

\* GitHub answered the last attempt with neither 201 nor a name collision.
OtherCreationError ==
  /\ fr.cr_resp # NoCreateResponse
  /\ fr.cr_resp.status \notin {"raise", "201"}
  /\ ~NameCollision(fr.cr_resp)

\* C27: in create_repository an answer that is neither 201 nor a name
\* collision ends the operation with an error at that attempt: the pipeline
\* is in its exception handler with the error raised by the creation step, the
\* delays slept are those of the earlier attempts only (none followed this
\* one), and no further attempt can be made.
C27_OtherErrorNotRetried ==
  OtherCreationError
    => /\ Holds(1, "except")
       /\ fr.raised_at = "create"
       /\ fr.cr_status = "raised"
       /\ fr.cr_sleeps = fr.cr_attempt - 1
       /\ \A ts \in WideTimestamps, rnd \in WideRandomSuffixes,
             resp \in WideCreateResponses :
            ~ENABLED CreateAttempt(1, ts, rnd, resp)

\* The third attempt, after two collisions, was answered 403 with a collision
\* body and was the last one.
C27_ForbiddenOnThirdAttempt ==
  /\ OtherCreationError
  /\ fr.cr_resp.status = "403"
  /\ fr.cr_attempt = 3
  /\ fr.cr_sleeps = 2
  /\ fr.err = <<"GitHub repository creation failed: ", "Forbidden">>

\* C28: upload_files takes the files one at a time in the order of the list;
\* for each file the probe comes first and the write follows it (a file is
\* never written unprobed, and the next file is not probed before the write
\* of this one); the write carries the revision token the probe returned
\* exactly when the probe answered that the file exists, and no token
\* otherwise.
C28_ProbeThenWriteWithToken ==
  \A i \in DOMAIN pipes :
    (running = i /\ fr.up_probe # "")
      => LET n == Len(fr.up_probed)
             w == Len(fr.up_put)
         IN  /\ n >= 1
             /\ fr.up_probed = SubSeq(FileNames, 1, n)
             /\ fr.up_put = SubSeq(FileNames, 1, w)
             /\ w \in {n - 1, n}
             /\ IF w = n
                THEN /\ fr.up_probe = "200" <=> fr.up_sha = BlobSha(FileNames[n])
                     /\ fr.up_probe # "200" <=> fr.up_sha = NoText
                ELSE /\ fr.up_probe = "raise"
                     /\ fr.up_sha = NoText

\* The second file existed and was written with its token after the first,
\* which did not exist, was created.
C28_SecondFileUpdated ==
  /\ Holds(1, "upload")
  /\ fr.up_put = <<"index.html", "style.css">>
  /\ fr.up_probe = "200"
  /\ fr.up_sha = BlobSha("style.css")
  /\ fr.up_status = "201"

\* '{task}-{nonce}' for round 1, '{task}-{nonce}-r{round}' from round 2 on.
RoundRepoName(req) ==
  req.task \o <<"-">> \o req.nonce \o
    (IF req.round >= 2 THEN <<"-", "r", str(req.round)>> ELSE <<>>)

\* The repositories GitHub holds grow only by one fresh name at a time, which
\* becomes the running pipeline's repo_url; a pipeline gets a repo_url only
\* this way and keeps it to the end of its round; every file written goes to
\* the repository of the running pipeline's repo_url.
WritesOwnRepository ==
  /\ gh_repos \subseteq gh_repos'
  /\ gh_repos' # gh_repos
       => /\ running # 0
          /\ fr.repo_url = NoText
          /\ \E name \in gh_repos' \ gh_repos :
               /\ gh_repos' = gh_repos \cup {name}
               /\ fr'.repo_url = HtmlUrl(name)
  /\ (fr.repo_url = NoText /\ fr'.repo_url # NoText) => gh_repos' # gh_repos
  /\ (fr.repo_url # NoText /\ fr'.repo_url # fr.repo_url)
       => fr'.repo_url = NoText
  /\ \A p \in gh_files' \ gh_files :
       /\ fr.repo_url # NoText
       /\ p[1] = RepoOfUrl(fr.repo_url)
       /\ fr'.repo_url = fr.repo_url
       /\ running' = running

NoBackend == ~PYDANTIC_AI_AVAILABLE \/ code_generator = "None"

StepOf(i) ==
  /\ i \in DOMAIN pipes
  /\ pipes'[i] # pipes[i]
  /\ \A j \in DOMAIN pipes : j # i => pipes'[j] = pipes[j]

\* C31: every record of the table stays in it, and a step of the pipeline of
\* one tracking id leaves the record of every other tracking id as it was.
C31_OwnRecordOnly ==
  [][\A k \in DOMAIN processing_tasks :
       /\ k \in DOMAIN processing_tasks'
       /\ \A i \in DOMAIN pipes :
            (StepOf(i) /\ Pid(i) # k)
              => processing_tasks'[k] = processing_tasks[k]]_vars

\* Two records under different tracking ids, one completed by its pipeline
\* and the other failed by its own.
C31_TwoRecordsTwoOutcomes ==
  /\ Len(pipes) = 2
  /\ Pid(1) # Pid(2)
  /\ processing_tasks[Pid(1)].status = "completed"
  /\ processing_tasks[Pid(2)].status = "failed"

\* C32: a record carries a result exactly when its status is completed and
\* an error message exactly when its status is failed, and never both.
C32_ResultXorError ==
  \A k \in DOMAIN processing_tasks :
    LET rec == processing_tasks[k]
    IN  /\ rec.has_result <=> rec.status = "completed"
        /\ rec.has_error <=> rec.status = "failed"
        /\ ~(rec.has_result /\ rec.has_error)

\* What the updates of the record do guarantee: a completed record carries a
\* result and no error, a failed record carries an error, and a record that
\* is neither carries none of the two.
C32_StatusImpliesContent ==
  \A k \in DOMAIN processing_tasks :
    LET rec == processing_tasks[k]
    IN  /\ rec.status = "completed" => rec.has_result /\ ~rec.has_error
        /\ rec.status = "failed" => rec.has_error
        /\ rec.status \in {"processing", "generating_code"}
             => ~rec.has_result /\ ~rec.has_error

\* The pipeline of the i-th accepted request has come to its end with its
\* record completed or failed and the notifier called at least once.
Resolved(i) ==
  /\ Holds(i, "done")
  /\ processing_tasks[Pid(i)].status \in {"completed", "failed"}
  /\ fr.posts # <<>>

\* The i-th request has been accepted and its task created.
Accepted(i) == i \in DOMAIN pipes /\ pipes[i].pc = "scheduled"

\* C33: provided every outbound call returns or raises and the loop runs the
\* tasks that are ready, the pipeline of every accepted request comes to its
\* end with the record completed or failed and the notifier called; the
\* attempts of create_repository and of the notifier stay within their
\* bounds.
C33_EveryRequestResolves ==
  /\ \A i \in 1..MaxRequests : Accepted(i) ~> Resolved(i)
  /\ [](fr.cr_attempt <= max_attempts /\ fr.post_attempt < max_retries
          /\ Len(fr.posts) <= 2 * max_retries)

\* A pipeline at its end after the notifier used up its attempts on the
\* failure payload, create_repository having used up its own before.
C33_BothLoopsExhausted ==
  \E i \in DOMAIN pipes :
    /\ Resolved(i)
    /\ fr.raised_at = "create"
    /\ fr.err = <<"GitHub repository creation failed: ",
                  "Unable to generate unique repository name after ",
                  str(max_attempts), " attempts">>
    /\ Len(fr.posts) = max_retries
    /\ fr.outcome = "NetworkError"

\* C34: the payloads a pipeline has posted to the evaluation URL are all of
\* one kind, completed or failed, and at the pipeline's end that kind is the
\* status of the record.
C34_OneKindOfPayload ==
  \A i \in DOMAIN pipes :
    running = i
      => /\ \A k, l \in DOMAIN fr.posts :
              fr.posts[k].status = fr.posts[l].status
         /\ (pipes[i].pc = "done" /\ fr.posts # <<>>)
              => fr.posts[1].status = processing_tasks[Pid(i)].status

\* What the pipeline does guarantee: the payload posted last is of the kind
\* of the record's status at the end, and a failure payload is never followed
\* by a completion payload.
C34_LastPayloadMatchesStatus ==
  \A i \in DOMAIN pipes :
    running = i
      => /\ \A k, l \in DOMAIN fr.posts :
              (k < l /\ fr.posts[k].status = "failed")
                => fr.posts[l].status = "failed"
         /\ (pipes[i].pc = "done" /\ fr.posts # <<>>)
              => fr.posts[Len(fr.posts)].status
                   = processing_tasks[Pid(i)].status

\* The files GitHub holds in repository repo.
FilesIn(repo) == {p \in gh_files : p[1] = repo}

\* create_repository returns in this step.
CreationReturns == fr.cr_status # "returned" /\ fr'.cr_status = "returned"

\* C35: the repository a pipeline uploads into is one GitHub created on this
\* pipeline's request under a name it did not hold, and holds no file but
\* those this pipeline has written; when the name first asked for is held
\* already, the repository the pipeline gets has another name, obtained on a
\* later attempt.
C35_NoSharedRepository ==
  /\ [](\A i \in DOMAIN pipes :
          (running = i /\ fr.repo_url # NoText)
            => /\ SubSeq(fr.repo_url, 5, Len(fr.repo_url)) \in gh_repos
               /\ FilesIn(RepoOfUrl(fr.repo_url))
                    = {<<RepoOfUrl(fr.repo_url), FileNames[k]>> :
                         k \in 1..fr.up_idx})
  /\ [][CreationReturns
          => /\ fr'.cr_last \notin gh_repos
             /\ gh_repos' = gh_repos \cup {fr'.cr_last}
             /\ fr'.repo_url = HtmlUrl(fr'.cr_last)
             /\ RoundRepoName(Req(running)) \in gh_repos
                  => /\ fr'.cr_last # RoundRepoName(Req(running))
                     /\ fr'.cr_attempt > 1]_vars

\* Two pipelines asked for one name; both have published their four files,
\* the first under that name and the second under a retry name.
C35_SameNameTwoRepositories ==
  /\ Len(pipes) = 2
  /\ RoundRepoName(Req(1)) = RoundRepoName(Req(2))
  /\ Cardinality(gh_repos) = 2
  /\ RoundRepoName(Req(1)) \in gh_repos
  /\ \A name \in gh_repos :
       Cardinality(FilesIn(RepoOfUrl(HtmlUrl(name)))) = Len(FileNames)

\* The round of the running pipeline failed after create_repository had
\* returned: in upload_files, in enable_pages or in building the result.
FailedAfterCreation == fr.raised_at \in {"upload", "pages", "result"}

\* Payload p names none of the repositories GitHub holds: it has no
\* repo_url, commit_sha or pages_url, and its message holds no repository
\* name.
NamesNoRepository(p) ==
  /\ p.keys \cap {"repo_url", "commit_sha", "pages_url"} = {}
  /\ p.repo_url = NoText /\ p.commit_sha = NoText /\ p.pages_url = NoText
  /\ \A name \in gh_repos :
       /\ ~Contains(p.error, name)
       /\ ~Contains(p.error, HtmlUrl(name))

AgentsSetTogether == code_generator = "None" <=> code_reviser = "None"

\* generate_code was called in the running pipeline and has raised before
\* any backend call: ensure tells what was done about the unset generator.
CalledUnset == running # 0 /\ fr.ensure # ""

ValidSeedSent(i) ==
  /\ pipes[i].pc = "awaiting"
  /\ email_pattern(Req(i).email)

\* text with every placeholder replaced by "23".
With23(text) == Replace(text, Placeholder, <<"2", "3">>)

\* C38: for every identity that request validation accepts (23f, seven
\* digits, the fixed domain) the derived seed is "23": the brief and the
\* checks that reach the backend have the placeholder replaced by "23",
\* whoever the requester is.
C38_ValidSeedIs23 ==
  \A i \in DOMAIN pipes :
    ValidSeedSent(i)
      => /\ seed(Req(i).email) = <<"2", "3">>
         /\ pipes[i].prompt.brief = With23(Req(i).brief)
         /\ \A k \in DOMAIN Req(i).checks :
              pipes[i].prompt.checks[k] = With23(Req(i).checks[k])

\* A valid requester other than the student of the examples got "a23b23"
\* for the brief "a${seed}b${seed}".
C38_OtherRequesterSame23 ==
  \E i \in DOMAIN pipes :
    /\ ValidSeedSent(i)
    /\ Req(i).email # StudentEmail
    /\ Req(i).brief = <<"a">> \o Placeholder \o <<"b">> \o Placeholder
    /\ pipes[i].prompt.brief = <<"a", "2", "3", "b", "2", "3">>

\* C39: with no secret configured (secret_key is the 3-character default
\* "...") every request that passes the schema is answered 403 and no record
\* and no pipeline is ever created: a secret that passes the schema has at
\* least 8 characters and so differs from the configured one; the one secret
\* that would match fails the schema and is answered 422.
C39_DefaultSecretAdmitsNone ==
  /\ secret_key = DefaultSecret
  /\ Len(secret_key) = 3
  /\ processing_tasks = <<>>
  /\ pipes = <<>>
  /\ \A k \in DOMAIN http_log :
       LET r == http_log[k].req
       IN  /\ ~FailsSchema(r)
                => /\ Len(r.secret) >= 8
                   /\ r.secret # secret_key
                   /\ http_log[k].resp.code = 403
           /\ r.secret = secret_key => http_log[k].resp.code = 422

\* A body valid in every field with the secret "s3cr3t-key" was answered
\* 403, and the same body with the secret "..." was answered 422.
C39_ValidRejectedDefaultUnusable ==
  \E k, m \in DOMAIN http_log :
    /\ secret_key = DefaultSecret
    /\ http_log[k].req = RawValid
    /\ http_log[k].resp.code = 403
    /\ http_log[m].req = [RawValid EXCEPT !.secret = DefaultSecret]
    /\ http_log[m].resp.code = 422
    /\ processing_tasks = <<>>

====
